---------------------------- MODULE Spec2Model ----------------------------
(***************************************************************************)
(* Model of goeasy-ublox_reader: the serial frame reader                   *)
(* (ublox_reader/serial/receiver.py), the decoder (ublox_reader/           *)
(* utilities.py, class DataParser) and the queue/dispatch pipeline         *)
(* (ublox_reader/ublox_receiver.py).                                       *)
(*                                                                         *)
(* Bytes are the integers 0..255, a bytes object is a sequence of bytes.   *)
(* Python indexes from 0, TLA+ from 1: data[i] is data[i + 1] below.       *)
(***************************************************************************)
EXTENDS Integers, Sequences, FiniteSets, TLC

VARIABLES
    \* ---- SerialReceiver (serial/receiver.py) ----
    wire,                                 \* bytes the device has put on the serial line
    sent,                                 \* the frames the device sent (without preamble), in wire order
    pos,                                  \* number of bytes of wire already consumed by reads
    start_reading,                        \* SerialReceiver.start_reading
    cleaning_ublox_buffer,                \* SerialReceiver.cleaning_ublox_buffer
    first_ublox_message_after_cleaning,   \* SerialReceiver.first_ublox_message_after_cleaning
    ublox_messages,                       \* SerialReceiver.ublox_messages
    ublox_counter,                        \* SerialReceiver.ublox_counter
    yielded,                              \* messages the generator has yielded to its caller
    raised,                               \* exception that left ublox_message ("" when none)
    last,                                 \* record of the last invocation of ublox_message
    \* ---- DataParser (utilities.py) ----
    parser,                               \* the attributes of the DataParser
    clock,                                \* time.time() * 1000, in ticks
    returned,                             \* what the last parse_message call returned
    last_time,                            \* the last Time message decoded and its fields
    samples,                              \* the last two clock samples processed, newest last
    \* ---- UbloxReceiver (ublox_receiver.py) ----
    data_to_parse,                        \* UbloxReceiver.data_to_parse, the asyncio.Queue
    time_flag,                            \* UbloxReceiver.time_flag
    executor,                             \* work queue of parse_data_executor (one worker)
    stored,                               \* table name and tuple handed to store_data, in order
    received,                             \* every frame get_data has put in the queue, in order
    dispatched,                           \* what parse_data did with each dequeued frame
    decoded,                              \* the jobs the executor has run, in order
    \* ---- calls of the static methods of DataParser ----
    call,                                 \* the last call of read_auth_bits / extract_galileo_data
    calls,                                \* the calls of convolution made so far, in order
    register,                             \* the shift register as the last call of convolution left it
    \* ---- the tasks of the event loop (ublox_receiver.py) ----
    get_data_task,                        \* the task that runs get_data
    parse_data_task,                      \* the task that runs parse_data
    closers,                              \* the close_all_connections tasks created, in order
    signals,                              \* number of stop signals the process has received
    unhandled,                            \* exceptions nobody retrieved, waiting for the loop's handler
    serial_port,                          \* the serial port, "open" or "closed"
    pool_state,                           \* the connection pool, "open" or "closed"
    loop_state,                           \* the event loop, "running" or "stopped"
    read_on_closed_port,                  \* a read has been issued on the closed serial port
    \* ---- DataBase (database/postgresql.py) ----
    tables,                               \* the tables of the database, each with its rows
    indexes,                              \* the names of the indexes of the database
    last_store,                           \* record of the last call of store_data
    store_calls,                          \* the store_data calls that run concurrently, each with its position
    \* ---- validation of the DataParser (utilities.py) ----
    valid_data_to_store,                  \* DataParser.valid_data_to_store, buckets in insertion order
    validation_executor,                  \* jobs submitted to DataParser.executor, oldest first
    file,                                 \* the rows appended to the validation file
    fed,                                  \* number of messages of the validation stream parsed
    overtakes,                            \* number of jobs that finished before an older job
    last_flush,                           \* record of the last flush of valid_data_to_store
    \* ---- the worker threads of parse_data_executor (ublox_receiver.py) ----
    threads,                              \* the jobs the worker threads are running, each with its position
    torn_read                             \* a Navigation decode has run while a Time decode was half done

readerVars == <<wire, sent, pos, start_reading, cleaning_ublox_buffer,
                first_ublox_message_after_cleaning, ublox_messages,
                ublox_counter, yielded, raised, last>>

parserVars == <<parser, clock, returned, last_time, samples>>

pipelineVars == <<data_to_parse, time_flag, executor, stored, received,
                  dispatched, decoded>>

codecVars == <<call, calls, register>>

lifeVars == <<get_data_task, parse_data_task, closers, signals, unhandled,
              serial_port, pool_state, loop_state, read_on_closed_port>>

dbVars == <<tables, indexes, last_store, store_calls>>

validationVars == <<valid_data_to_store, validation_executor, file, fed,
                    overtakes, last_flush>>

threadVars == <<threads, torn_read>>

vars == <<readerVars, parserVars, pipelineVars, codecVars, lifeVars, dbVars,
          validationVars, threadVars>>

-----------------------------------------------------------------------------
(* Bounds *)

\* number of frames the device puts on the wire in the reader specification
MaxChunks == 8

\* last tick of the clock
MaxClock == 1

\* number of frames get_data puts in the queue in the pipeline specification
MaxFrames == 4

\* number of calls of convolution in the codec specification
MaxCalls == 3

\* number of frames the reader yields in the shutdown specification
MaxReads == 2

\* number of stop signals the process receives
MaxSignals == 1

\* Navigation pages given to the validation
MaxPages == 30

\* jobs waiting for or running on DataParser.executor
MaxJobs == 4

\* jobs of DataParser.executor that finish before an older job
MaxOvertakes == 1

\* pages parsed before any job of DataParser.executor finishes before an
\* older one
QuietPages == 25

\* store_data calls that run concurrently
MaxStores == 2

-----------------------------------------------------------------------------
(* Bytes *)

\* b"".join(parts)
RECURSIVE Flatten(_)
Flatten(parts) ==
    IF parts = <<>> THEN <<>> ELSE Head(parts) \o Flatten(Tail(parts))

\* n copies of byte b
Fill(n, b) == [i \in 1..n |-> b]

\* data[a:b] with Python's clamping of the bounds (0 <= a <= b)
Slice(data, a, b) ==
    IF a >= Len(data) THEN <<>>
    ELSE SubSeq(data, a + 1, IF b < Len(data) THEN b ELSE Len(data))

\* int.from_bytes(data, byteorder="little")
RECURSIVE from_bytes_little(_)
from_bytes_little(data) ==
    IF data = <<>> THEN 0
    ELSE Head(data) + 256 * from_bytes_little(Tail(data))

-----------------------------------------------------------------------------
(* The wire format, device side *)

\* DELIMETER, the two synchronisation characters 0xB5 0x62
DELIMETER == <<181, 98>>

\* a UBX frame without its preamble: class, id, little-endian length of the
\* payload, payload, CK_A, CK_B
UbxFrame(cls, id, payload, ck) ==
    <<cls, id, Len(payload) % 256, Len(payload) \div 256>> \o payload \o ck

\* what the device writes: every frame preceded by the preamble
WireOf(frames) ==
    Flatten([i \in 1..Len(frames) |-> DELIMETER \o frames[i]])

-----------------------------------------------------------------------------
(* SerialReceiver.ublox_message *)

\* the outcome of one invocation: status is "yield" (one message given to the
\* caller), "SerialException" / "UbloxSerialException" (raised), or "block"
\* (a read waits for bytes that the wire does not hold yet); pos is the
\* number of wire bytes consumed, reads the number of read calls issued
Outcome(status, message, p, reads) ==
    [status |-> status, message |-> message, pos |-> p, reads |-> reads]

\* read_until_async(DELIMETER): index of the last byte of the shortest run of
\* bytes after p that ends with the delimiter, 0 when the wire holds none
\* (pyserial compares the tail of what this call has read so far); k is the
\* index of the byte the call reads next
RECURSIVE read_until_from(_, _)
read_until_from(s, k) ==
    IF k > Len(s) THEN 0
    ELSE IF s[k - 1] = DELIMETER[1] /\ s[k] = DELIMETER[2] THEN k
    ELSE read_until_from(s, k + 1)

read_until(s, p) == read_until_from(s, p + 2)

\* len_message < 24 is the loop condition: a candidate is kept when it is not
AcceptableSize_25(len_message) == ~(len_message < 25)

AcceptableSize(len_message) == ~(len_message < 24)

\* self.ublox_counter == 5
EnoughCorrectMessages_early(counter) == counter = 4

EnoughCorrectMessages(counter) == counter = 5

\* int.from_bytes(message[2:], byteorder="little") + 2 for the 4-byte header
PayloadAndChecksumLen_no_checksum(message) ==
    from_bytes_little(Slice(message, 2, Len(message)))

PayloadAndChecksumLen(message) ==
    from_bytes_little(Slice(message, 2, Len(message))) + 2

\* the Cleaning branch: read up to the delimiter, drop the delimiter, repeat
\* while the candidate is too short; failAt is the index of the read call on
\* which the port raises SerialException (0: none), r the reads issued so far
RECURSIVE CleaningRead(_, _, _, _)
CleaningRead(s, p, failAt, r) ==
    IF failAt = r + 1 THEN Outcome("SerialException", <<>>, p, r + 1)
    ELSE LET k == read_until(s, p) IN
         IF k = 0 THEN Outcome("block", <<>>, p, r + 1)
         ELSE LET message == SubSeq(s, p + 1, k - 2) IN
              IF AcceptableSize(Len(message))
              THEN Outcome("yield", message, k, r + 1)
              ELSE CleaningRead(s, k, failAt, r + 1)

\* read_async(4) then read_async(length + 2), after r reads already issued
HeaderAndPayloadRead(s, p, failAt, r) ==
    IF failAt = r + 1 THEN Outcome("SerialException", <<>>, p, r + 1)
    ELSE IF Len(s) < p + 4 THEN Outcome("block", <<>>, p, r + 1)
    ELSE LET header == SubSeq(s, p + 1, p + 4)
             n      == PayloadAndChecksumLen(header)
         IN  IF failAt = r + 2 THEN Outcome("SerialException", <<>>, p + 4, r + 2)
             ELSE IF Len(s) < p + 4 + n THEN Outcome("block", <<>>, p + 4, r + 2)
             ELSE Outcome("yield", header \o SubSeq(s, p + 5, p + 4 + n),
                          p + 4 + n, r + 2)

\* the Steady branch: read_async(2) drops the preamble first
SteadyRead_preamble_kept(s, p, failAt) ==
    IF failAt = 1 THEN Outcome("SerialException", <<>>, p, 1)
    ELSE IF Len(s) < p + 2 THEN Outcome("block", <<>>, p, 1)
    ELSE LET o == HeaderAndPayloadRead(s, p + 2, failAt, 1)
         IN  [o EXCEPT !.message = IF o.status = "yield"
                                   THEN SubSeq(s, p + 1, p + 2) \o @ ELSE @]

SteadyRead(s, p, failAt) ==
    IF failAt = 1 THEN Outcome("SerialException", <<>>, p, 1)
    ELSE IF Len(s) < p + 2 THEN Outcome("block", <<>>, p, 1)
    ELSE HeaderAndPayloadRead(s, p + 2, failAt, 1)

\* except SerialException: raise UbloxSerialException
ExceptSerialException_swallowed(o) ==
    IF o.status = "SerialException"
    THEN [o EXCEPT !.status = "return"] ELSE o

ExceptSerialException(o) ==
    IF o.status = "SerialException"
    THEN [o EXCEPT !.status = "UbloxSerialException"] ELSE o

\* the body of the try block, by the flag that selects the branch
TryBody(s, p, failAt) ==
    IF cleaning_ublox_buffer THEN CleaningRead(s, p, failAt, 0)
    ELSE IF first_ublox_message_after_cleaning THEN HeaderAndPayloadRead(s, p, failAt, 0)
    ELSE IF ublox_messages THEN SteadyRead(s, p, failAt)
    ELSE Outcome("return", <<>>, p, 0)

\* the mode the flags select
Mode ==
    IF cleaning_ublox_buffer THEN "Cleaning"
    ELSE IF first_ublox_message_after_cleaning THEN "Transition"
    ELSE IF ublox_messages THEN "Steady"
    ELSE "None"

\* one `async for message in self.serial.ublox_message()`: the generator runs
\* to its yield, the caller takes the message and resumes it, and the code
\* after the yield runs until the generator returns
ublox_message(failAt) ==
    LET o == ExceptSerialException(TryBody(wire, pos, failAt)) IN
    /\ raised = ""
    /\ o.status # "block"
    /\ failAt <= o.reads
    /\ start_reading' = TRUE
    /\ pos' = o.pos
    /\ last' = [mode |-> Mode, status |-> o.status, reads |-> o.reads,
                failAt |-> failAt, from |-> pos, yields |-> Len(yielded),
                calls |-> last.calls + 1]
    /\ UNCHANGED <<wire, sent>>
    /\ IF o.status = "yield"
       THEN /\ yielded' = Append(yielded, o.message)
            /\ raised' = ""
            /\ IF cleaning_ublox_buffer
               THEN /\ ublox_counter' = ublox_counter + 1
                    /\ IF EnoughCorrectMessages(ublox_counter + 1)
                       THEN /\ cleaning_ublox_buffer' = FALSE
                            /\ first_ublox_message_after_cleaning' = TRUE
                       ELSE UNCHANGED <<cleaning_ublox_buffer,
                                        first_ublox_message_after_cleaning>>
                    /\ UNCHANGED ublox_messages
               ELSE IF first_ublox_message_after_cleaning
               THEN /\ first_ublox_message_after_cleaning' = FALSE
                    /\ ublox_messages' = TRUE
                    /\ UNCHANGED <<cleaning_ublox_buffer, ublox_counter>>
               ELSE UNCHANGED <<cleaning_ublox_buffer, ublox_counter,
                                first_ublox_message_after_cleaning, ublox_messages>>
       ELSE /\ raised' = (IF o.status = "return" THEN "" ELSE o.status)
            /\ UNCHANGED <<yielded, cleaning_ublox_buffer, ublox_counter,
                           first_ublox_message_after_cleaning, ublox_messages>>

\* the reads of an invocation complete
ReadOk == ublox_message(0)

\* one read of an invocation fails with SerialException
ReadFails ==
    \E failAt \in 1..TryBody(wire, pos, 0).reads : ublox_message(failAt)

-----------------------------------------------------------------------------
(* Python values *)

\* an attribute that may be None is None or Some(value)
None == <<>>

Some(x) == <<x>>

\* `is not None` in the place of the truth value
Truthy_is_not_None(o) == o # None

\* no attribute is ever true
Truthy_never(o) == FALSE

\* the truth value Python gives an int-or-None attribute in `if x`
Truthy(o) == o # None /\ o[1] # 0

\* Python integers are unbounded; the ones that do not fit 32 bits (the unix
\* timestamp in ms, the 40 authentication bits) are kept as <<hi, lo>>,
\* meaning hi * BigBase + lo with 0 <= lo < BigBase
BigBase == 1000000

BigNorm(hi, lo) == <<hi + (lo \div BigBase), lo % BigBase>>

BigInt(n) == BigNorm(0, n)

BigAdd(a, b) == BigNorm(a[1] + b[1], a[2] + b[2])

BigSub(a, b) == BigNorm(a[1] - b[1], a[2] - b[2])

\* a * m for 0 <= m <= 2000
BigMulSmall(a, m) == BigNorm(a[1] * m, a[2] * m)

\* a % 2 (BigBase is even)
BigMod2(a) == a[2] % 2

\* int.from_bytes(data, byteorder="little", signed=True)
from_bytes_little_signed(data) ==
    IF data = <<>> THEN 0
    ELSE LET top == data[Len(data)]
             low == from_bytes_little(SubSeq(data, 1, Len(data) - 1))
         IN  low + (256 ^ (Len(data) - 1)) * (IF top >= 128 THEN top - 256 ELSE top)

\* int.from_bytes(data, byteorder="little") for a value of up to 40 bits
RECURSIVE from_bytes_little_big(_)
from_bytes_little_big(data) ==
    IF data = <<>> THEN BigInt(0)
    ELSE BigAdd(BigInt(Head(data)), BigMulSmall(from_bytes_little_big(Tail(data)), 256))

HexDigits == <<"0", "1", "2", "3", "4", "5", "6", "7",
               "8", "9", "a", "b", "c", "d", "e", "f">>

\* bytes.hex(): a hex string is the sequence of its digits
hex(data) ==
    [i \in 1..(2 * Len(data)) |->
        IF i % 2 = 1 THEN HexDigits[(data[(i + 1) \div 2] \div 16) + 1]
        ELSE HexDigits[(data[i \div 2] % 16) + 1]]

\* the value of a hex digit
HexValue(c) == CHOOSE v \in 0..15 : HexDigits[v + 1] = c

\* bytes.fromhex()
fromhex(digits) ==
    [i \in 1..(Len(digits) \div 2) |->
        16 * HexValue(digits[2 * i - 1]) + HexValue(digits[2 * i])]

\* data[hi:lo:-1], the bytes hi, hi - 1, ..., lo + 1 (lo = -1 for data[hi::-1])
ReverseSlice(data, hi, lo) ==
    LET top == IF hi < Len(data) THEN hi ELSE Len(data) - 1
    IN  IF top <= lo THEN <<>>
        ELSE [i \in 1..(top - lo) |-> data[top - i + 2]]

-----------------------------------------------------------------------------
(* DataParser (utilities.py) *)

\* config.get("COUNTRY", "NATION"); the tests expect Italy
nation == "Italy"

\* the class attributes of DataParser
DataParserInit(threshold, validation_active) ==
    [year |-> None, reception_time |-> None,
     timestamp_message_unix |-> None, timestamp_message_galileo |-> None,
     first_timestamp_galileo |-> None,
     raw_gal_tow |-> None, raw_gal_wno |-> None, raw_leap_s |-> None,
     time_raw_ck_a |-> None, time_raw_ck_b |-> None,
     threshold |-> threshold, drift |-> None, bias |-> None, attack |-> FALSE,
     validation_active |-> validation_active]

\* DataParser.adjust_second, on the <<hi, lo>> form of the argument
adjust_second_minus_2_1(seconds) ==
    IF BigMod2(seconds) = 0 THEN BigSub(seconds, BigInt(2))
    ELSE BigSub(seconds, BigInt(1))

adjust_second(seconds) ==
    IF BigMod2(seconds) = 0 THEN BigSub(seconds, BigInt(3))
    ELSE BigSub(seconds, BigInt(2))

\* the result of a method: the attributes it leaves and what it raised
Done(self) == [self |-> self, raised |-> ""]

Raise(self, exception) == [self |-> self, raised |-> exception]

\* DataParser.parse_time_message; year is datetime.now().year and now is
\* time.time() * 1000 at the call.  data[i] on a frame that has no byte i
\* raises IndexError after the assignments above it have been made
parse_time_message(self, data, year, now) ==
    LET s1 == [self EXCEPT !.year = Some(year),
                           !.reception_time = Some(now),
                           !.raw_gal_tow = Some(from_bytes_little(Slice(data, 8, 12))),
                           !.raw_gal_wno = Some(from_bytes_little_signed(Slice(data, 16, 18)))]
    IN
    IF Len(data) < 19 THEN Raise(s1, "IndexError") ELSE
    LET s2 == [s1 EXCEPT !.raw_leap_s = Some(data[19])] IN
    IF Len(data) < 25 THEN Raise(s2, "IndexError") ELSE
    LET s3 == [s2 EXCEPT !.time_raw_ck_a = Some(data[25])] IN
    IF Len(data) < 26 THEN Raise(s3, "IndexError") ELSE
    LET s4 == [s3 EXCEPT !.time_raw_ck_b = Some(data[26])]
        seconds == s4.raw_gal_wno[1] * 604800 + s4.raw_gal_tow[1]
        unix == adjust_second(
                    BigSub(BigAdd(BigMulSmall(BigInt(seconds), 1000),
                                  BigMulSmall(BigInt(935280000), 1000)),
                           BigInt(s4.raw_leap_s[1] * 1000)))
        galileo == (LET a == adjust_second(BigInt(seconds)) IN a[1] * BigBase + a[2])
        s5 == [s4 EXCEPT !.timestamp_message_unix = Some(unix),
                         !.timestamp_message_galileo = Some(galileo)]
    IN  Done(IF ~Truthy(s5.first_timestamp_galileo)
             THEN [s5 EXCEPT !.first_timestamp_galileo = Some(galileo)]
             ELSE s5)

\* abs()
abs(x) == IF x < 0 THEN -x ELSE x

\* DataParser.parse_clock_message
parse_clock_message(self, data) ==
    LET current_drift == from_bytes_little_signed(Slice(data, 12, 16))
        current_bias  == from_bytes_little_signed(Slice(data, 8, 12))
        \* abs(current_bias - self.bias)
        jump          == abs(current_bias - self.bias[1])
    IN  IF Truthy(self.bias) /\ Truthy(self.drift)
        THEN Done([self EXCEPT
                    !.attack = ~(/\ current_drift < self.threshold
                                 /\ \/ jump < self.threshold
                                    \/ /\ (1000000 - self.threshold) < jump
                                       /\ jump < 1000000 + self.threshold),
                    !.bias = Some(current_bias),
                    !.drift = Some(current_drift)])
        ELSE Done([self EXCEPT !.bias = Some(current_bias),
                               !.drift = Some(current_drift)])

\* bitarray(endian="little").frombytes(data): bit k of a byte is its 2^k digit
bits_little(data) ==
    [i \in 1..(8 * Len(data)) |-> (data[((i - 1) \div 8) + 1] \div (2 ^ ((i - 1) % 8))) % 2]

\* bitarray(endian="little").tobytes(), a last partial byte is zero-padded
tobytes_little(bits) ==
    [j \in 1..((Len(bits) + 7) \div 8) |->
        LET bit(k) == IF 8 * (j - 1) + k + 1 <= Len(bits)
                      THEN bits[8 * (j - 1) + k + 1] ELSE 0
        IN  bit(0) + 2 * bit(1) + 4 * bit(2) + 8 * bit(3)
            + 16 * bit(4) + 32 * bit(5) + 64 * bit(6) + 128 * bit(7)]

\* del bits[a:b]
DelSlice(bits, a, b) ==
    IF a >= Len(bits) THEN bits
    ELSE SubSeq(bits, 1, a)
         \o (IF b >= Len(bits) THEN <<>> ELSE SubSeq(bits, b + 1, Len(bits)))

\* DataParser.read_auth_bits
read_auth_bits_del_14_37(data) ==
    from_bytes_little_big(tobytes_little(DelSlice(bits_little(data), 14, 37)))

read_auth_bits(data) ==
    from_bytes_little_big(tobytes_little(DelSlice(bits_little(data), 14, 38)))

\* DataParser.extract_galileo_data
extract_galileo_data_padding_kept(data) ==
    LET wordA == ReverseSlice(data, 3, -1)
        wordB == ReverseSlice(data, 7, 3)
        wordC == ReverseSlice(data, 11, 7)
        wordD == ReverseSlice(data, 15, 11)
        wordE == ReverseSlice(data, 19, 15)
        wordF == ReverseSlice(data, 23, 19)
        wordG == ReverseSlice(data, 27, 23)
        wordH == ReverseSlice(data, 31, 27)
    IN  hex(wordA \o wordB \o wordC \o wordD \o wordE \o wordF \o wordG \o wordH)

extract_galileo_data_wordA_short(data) ==
    LET wordA == ReverseSlice(data, 3, 0)
        wordB == ReverseSlice(data, 7, 3)
        wordC == ReverseSlice(data, 11, 7)
        wordD == ReverseSlice(data, 15, 12)
        wordE == ReverseSlice(data, 19, 15)
        wordF == ReverseSlice(data, 23, 19)
        wordG == ReverseSlice(data, 27, 23)
        wordH == ReverseSlice(data, 31, 28)
    IN  hex(wordA \o wordB \o wordC \o wordD \o wordE \o wordF \o wordG \o wordH)

extract_galileo_data(data) ==
    LET wordA == ReverseSlice(data, 3, -1)
        wordB == ReverseSlice(data, 7, 3)
        wordC == ReverseSlice(data, 11, 7)
        wordD == ReverseSlice(data, 15, 12)
        wordE == ReverseSlice(data, 19, 15)
        wordF == ReverseSlice(data, 23, 19)
        wordG == ReverseSlice(data, 27, 23)
        wordH == ReverseSlice(data, 31, 28)
    IN  hex(wordA \o wordB \o wordC \o wordD \o wordE \o wordF \o wordG \o wordH)

\* `if self.attack: authenticity = 0 else: authenticity = -1`
Authenticity_inverted(attack) == IF attack THEN -1 ELSE 0

Authenticity(attack) == IF attack THEN 0 ELSE -1

\* the tuple parse_message returns next to the table name
RecordTuple_checksums_swapped(self, data, galileo_data, raw_auth_bits) ==
    <<self.reception_time, self.timestamp_message_unix, self.raw_gal_tow,
      self.raw_gal_wno, self.raw_leap_s, hex(data), galileo_data,
      raw_auth_bits, data[6], data[9], data[Len(data) - 1], data[Len(data)],
      self.time_raw_ck_a, self.time_raw_ck_b, Authenticity(self.attack),
      self.timestamp_message_galileo>>

RecordTuple(self, data, galileo_data, raw_auth_bits) ==
    <<self.reception_time, self.timestamp_message_unix, self.raw_gal_tow,
      self.raw_gal_wno, self.raw_leap_s, hex(data), galileo_data,
      raw_auth_bits, data[6], data[9], data[Len(data)], data[Len(data) - 1],
      self.time_raw_ck_a, self.time_raw_ck_b, Authenticity(self.attack),
      self.timestamp_message_galileo>>

\* the two validate_data tasks parse_message creates when validation is
\* active: <<timestamp, data, satellite_id>>
ValidationTasks(self, galileo_data, raw_sv_id) ==
    LET galileo_data_in_bytes == fromhex(galileo_data)
        timestamp == self.timestamp_message_galileo[1] - self.first_timestamp_galileo[1]
    IN  << <<timestamp, Slice(galileo_data_in_bytes, 0, 15), raw_sv_id>>,
           <<timestamp + 1,
             Slice(galileo_data_in_bytes, 15, Len(galileo_data_in_bytes)),
             raw_sv_id>> >>

\* DataParser.parse_message: the value returned, the tasks created, and the
\* exception raised instead (data[i] on a short frame, None - None when no
\* Time message has been parsed and validation is active)
parse_message(self, data) ==
    IF Len(data) < 9
    THEN [table |-> "", record |-> <<>>, tasks |-> <<>>, raised |-> "IndexError"]
    ELSE
    LET raw_sv_id     == data[6]
        raw_auth_bits == read_auth_bits(Slice(data, 28, 36))
        galileo_data  == extract_galileo_data(Slice(data, 12, 44))
    IN  IF self.validation_active /\ self.timestamp_message_galileo = None
        THEN [table |-> "", record |-> <<>>, tasks |-> <<>>, raised |-> "TypeError"]
        \* f"{self.year}_{nation}_{raw_sv_id}"
        ELSE [table  |-> (IF self.year = None THEN "None"
                          ELSE ToString(self.year[1]))
                         \o "_" \o nation \o "_" \o ToString(raw_sv_id),
              record |-> RecordTuple(self, data, galileo_data, raw_auth_bits),
              tasks  |-> IF self.validation_active
                         THEN ValidationTasks(self, galileo_data, raw_sv_id)
                         ELSE <<>>,
              raised |-> ""]

\* bitarray().frombytes(data): the default endianness is big, bit 0 of a
\* byte is its 2^7 digit
bits_big(data) ==
    [i \in 1..(8 * Len(data)) |-> (data[((i - 1) \div 8) + 1] \div (2 ^ (7 - ((i - 1) % 8)))) % 2]

\* bitarray(bits).tobytes(), a last partial byte is zero-padded
tobytes_big(bits) ==
    [j \in 1..((Len(bits) + 7) \div 8) |->
        LET bit(k) == IF 8 * (j - 1) + k + 1 <= Len(bits)
                      THEN bits[8 * (j - 1) + k + 1] ELSE 0
        IN  128 * bit(0) + 64 * bit(1) + 32 * bit(2) + 16 * bit(3)
            + 8 * bit(4) + 4 * bit(5) + 2 * bit(6) + bit(7)]

\* g = np.array([[1, 1, 1, 1, 0, 0, 1], [1, 0, 1, 1, 0, 1, 1]], bool)
g_rows_swapped == << <<1, 0, 1, 1, 0, 1, 1>>, <<1, 1, 1, 1, 0, 0, 1>> >>

g == << <<1, 1, 1, 1, 0, 0, 1>>, <<1, 0, 1, 1, 0, 1, 1>> >>

\* sinc = np.array([0, 1, 0, 1, 1, 0, 0, 0, 0, 0], bool)
sinc == <<0, 1, 0, 1, 1, 0, 0, 0, 0, 0>>

\* np.logical_xor on 0 / 1
logical_xor(a, b) == (a + b) % 2

\* `state = np.zeros(6, bool)`: the register a call starts from, whatever
\* register the call before it left
InitialState_carried(left) == left

InitialState(left) == Fill(6, 0)

\* the loop `for j in range(1, K)`: output[i] xor-ed with g[i, j] * state[j - 1]
\* for j, j + 1, ..., K - 1
RECURSIVE FoldTaps(_, _, _, _)
FoldTaps(i, j, state, acc) ==
    IF j > 6 THEN acc
    ELSE FoldTaps(i, j + 1, state, logical_xor(acc, g[i + 1][j + 1] * state[j]))

\* output[i] after the loop over j, for the input bit and the register
EncoderOutput(i, input_data, state) ==
    FoldTaps(i, 1, state, g[i + 1][1] * input_data)

\* `output[1] = np.logical_not(output[1])`
SecondOutput_not_inverted(bit) == bit

SecondOutput(bit) == 1 - bit

\* one iteration of the loop `for x in range(h)` on e, the outputy and the
\* register so far: outputy[x * 2] on an array that has no such place raises
\* IndexError
EncodeBit(e, x, input_data) ==
    IF e.raised # "" THEN e
    ELSE IF (x * 2) + 1 >= Len(e.outputy) THEN [e EXCEPT !.raised = "IndexError"]
    ELSE [state   |-> <<input_data>> \o SubSeq(e.state, 1, 5),
          outputy |-> [e.outputy EXCEPT
                          ![(x * 2) + 1] = EncoderOutput(0, input_data, e.state),
                          ![(x * 2) + 2] =
                              SecondOutput(EncoderOutput(1, input_data, e.state))],
          raised  |-> ""]

\* the loop `for x in range(h)` from bit x on, the eight bits of one input
\* byte at a time (h is a multiple of 8)
RECURSIVE Encode(_, _, _)
Encode(inputx, x, e) ==
    IF e.raised # "" \/ x >= Len(inputx) THEN e
    ELSE LET e1 == EncodeBit(e, x, inputx[x + 1])
             e2 == EncodeBit(e1, x + 1, inputx[x + 2])
             e3 == EncodeBit(e2, x + 2, inputx[x + 3])
             e4 == EncodeBit(e3, x + 3, inputx[x + 4])
             e5 == EncodeBit(e4, x + 4, inputx[x + 5])
             e6 == EncodeBit(e5, x + 5, inputx[x + 6])
             e7 == EncodeBit(e6, x + 6, inputx[x + 7])
             e8 == EncodeBit(e7, x + 7, inputx[x + 8])
         IN  Encode(inputx, x + 8, e8)

\* interleaver[row, col] = outputy[col * n_row + row], then interleaved is
\* the 10 bits of sinc, the rows of the interleaver one after the other, and
\* zeros up to 256 bits
Interleave_by_rows(outputy) ==
    [p \in 1..256 |->
        IF p <= 10 THEN sinc[p]
        ELSE IF p <= 250 THEN outputy[p - 10]
        ELSE 0]

Interleave(outputy) ==
    [p \in 1..256 |->
        IF p <= 10 THEN sinc[p]
        ELSE IF p <= 250
        THEN LET row == (p - 11) \div 30
                 col == (p - 11) % 30
             IN  outputy[col * 8 + row + 1]
        ELSE 0]

\* the first half of DataParser.convolution, up to the end of the loop
\* `for x in range(h)`: outputy, the register and the exception raised
encoder(data, left) ==
    Encode(bits_big(data), 0,
           [state |-> InitialState(left), outputy |-> Fill(240, 0),
            raised |-> ""])

\* the second half of DataParser.convolution, from `n_col = 30` on: the hex
\* string returned for the 240 bits of outputy
interleaver(outputy) == hex(tobytes_big(Interleave(outputy)))

\* DataParser.convolution from the register `left` by the call before: the
\* hex string returned, the register at the end of the call and the
\* exception raised instead; outputy = np.zeros(240, bool)
convolution_run(data, left) ==
    LET e == encoder(data, left)
    IN  IF e.raised # ""
        THEN [out |-> <<>>, state |-> e.state, raised |-> e.raised]
        ELSE [out |-> interleaver(e.outputy), state |-> e.state, raised |-> ""]

\* DataParser.convolution
convolution(data) == convolution_run(data, register).out

-----------------------------------------------------------------------------
(* Streams the device sends in the reader specification *)

\* a Time frame of exactly 24 bytes
Frame24 == UbxFrame(1, 37, Fill(18, 0), <<163, 239>>)

\* a 26-byte frame full of 0x62 whose checksum bytes are both 0xB5
Frame26 == UbxFrame(2, 19, Fill(20, 98), <<181, 181>>)

\* a 23-byte frame, one byte below the size the Cleaning mode accepts
Frame23 == UbxFrame(1, 34, Fill(17, 7), <<69, 124>>)

\* a 6-byte frame with an empty payload
Frame6 == UbxFrame(5, 1, <<>>, <<6, 17>>)

\* the stream of the Cleaning test: four short candidates, then accepted ones
CleaningTestStreams ==
    {short \o good : short \in [1..4 -> {Frame23, Frame6}],
                     good \in [1..(MaxChunks - 2) -> {Frame24, Frame26}]}

\* a well-formed 42-byte frame whose payload holds the preamble pair at
\* bytes 20 and 21
FramePair ==
    UbxFrame(2, 19, Fill(20, 1) \o DELIMETER \o Fill(14, 0), <<53, 54>>)

\* SerialReceiver.__init__
InitFlags_steady_set ==
    /\ pos = 0
    /\ start_reading = FALSE
    /\ first_ublox_message_after_cleaning = FALSE
    /\ ublox_messages = TRUE
    /\ cleaning_ublox_buffer = TRUE
    /\ ublox_counter = 0
    /\ yielded = <<>>
    /\ raised = ""
    /\ last = [mode |-> "None", status |-> "none", reads |-> 0, failAt |-> 0,
               from |-> 0, yields |-> 0, calls |-> 0]

InitFlags ==
    /\ pos = 0
    /\ start_reading = FALSE
    /\ first_ublox_message_after_cleaning = FALSE
    /\ ublox_messages = FALSE
    /\ cleaning_ublox_buffer = TRUE
    /\ ublox_counter = 0
    /\ yielded = <<>>
    /\ raised = ""
    /\ last = [mode |-> "None", status |-> "none", reads |-> 0, failAt |-> 0,
               from |-> 0, yields |-> 0, calls |-> 0]

\* a reader that is given nothing to read
IdleReader ==
    /\ sent = <<>>
    /\ wire = <<>>
    /\ InitFlags

-----------------------------------------------------------------------------
(* Frames given to the decoder *)

\* int.to_bytes(n, k, byteorder="little"), two's complement for n < 0
to_bytes_little(n, k) == [i \in 1..k |-> (n \div (256 ^ (i - 1))) % 256]

\* UBX-NAV-TIMEGAL: class 1, id 0x25, 20 bytes of payload
TimeFrame(tow, wno, leap, ck_a, ck_b) ==
    UbxFrame(1, 37,
             Fill(4, 0) \o to_bytes_little(tow, 4) \o Fill(4, 0)
             \o to_bytes_little(wno, 2) \o <<leap, 7>> \o Fill(4, 0),
             <<ck_a, ck_b>>)

\* UBX-NAV-CLOCK: class 1, id 0x22, 20 bytes of payload
ClockFrame(bias, drift) ==
    UbxFrame(1, 34,
             Fill(4, 0) \o to_bytes_little(bias, 4) \o to_bytes_little(drift, 4)
             \o Fill(8, 0),
             <<69, 124>>)

\* UBX-RXM-SFRBX: class 2, id 0x13, 44 bytes of payload, 8 data words from
\* byte 12 of the frame
NavFrame(gnss_id, sv_id, num_words, words, ck_a, ck_b) ==
    UbxFrame(2, 19,
             <<gnss_id, sv_id, 1, 0, num_words, 14, 2, 210>> \o words \o Fill(4, 170),
             <<ck_a, ck_b>>)

\* TIME_MESSAGE_PAYLOAD of tests/constants.py, without the delimiter
TestTimeFrame ==
    <<1, 37, 20, 0, 0, 22, 156, 22, 192, 201, 5, 0, 28, 164, 2, 0,
      49, 4, 18, 7, 3, 0, 0, 0, 163, 239>>

\* GALILEO_MESSAGE_PAYLOAD of tests/constants.py, without the delimiter
TestNavFrame ==
    <<2, 19, 44, 0, 2, 18, 1, 0, 9, 14, 2, 210, 52, 119, 118, 7,
      93, 99, 0, 1, 245, 81, 34, 36, 0, 64, 15, 127, 0, 64, 101,
      166, 42, 0, 0, 0, 210, 87, 170, 170, 0, 64, 191, 63, 213, 154,
      232, 63, 74, 124>>

\* the 32 bytes 1, 2, ..., 32
CountingWords == [i \in 1..32 |-> i]

\* the Navigation messages decoded, each with the fields the device put in it
NavMessages ==
    { [data |-> TestNavFrame,
       fields |-> <<2, 18, 9, SubSeq(TestNavFrame, 13, 44), 74, 124>>] }
    \cup { [data |-> NavFrame(n[1], n[2], n[3], n[4], n[5], n[6]), fields |-> n] :
             \* the fields of the Navigation messages built: gnss_id, sv_id, num_words,
             \* words, ck_a, ck_b
             n \in { <<2, 3, 8, CountingWords, 1, 2>> } }

\* a Galileo Navigation frame of 26 bytes, 3 data words in its payload of 20:
\* long enough for the reader to yield it in every mode, and dispatched by
\* parse_data, which looks at data[0] and data[4] only
ShortNavMessage ==
    [data   |-> UbxFrame(2, 19,
                         <<2, 3, 1, 0, 3, 14, 2, 210>> \o SubSeq(CountingWords, 1, 12),
                         <<1, 2>>),
     fields |-> <<2, 3, 3, SubSeq(CountingWords, 1, 12), 1, 2>>]

\* TEST_AUTH_BYTES of tests/constants.py
TEST_AUTH_BYTES == <<0, 64, 101, 166, 42, 0, 0, 0>>

\* datetime.now().year at a tick of the clock
CalendarYear(t) == 2021 + t

\* the ticks time.time() may return at the next call
Ticks == {t \in {clock, clock + 1} : t <= MaxClock}

InitParser(thresholds, actives) ==
    /\ \E th \in thresholds, va \in actives : parser = DataParserInit(th, va)
    /\ clock = 0
    /\ returned = None
    /\ last_time = None
    /\ samples = <<>>

\* no static method has been called
InitCodec ==
    /\ call = None
    /\ calls = <<>>
    /\ register = Fill(6, 0)

\* the loop runs get_data and parse_data, nothing has been closed
InitLife ==
    /\ get_data_task = "running"
    /\ parse_data_task = "running"
    /\ closers = <<>>
    /\ signals = 0
    /\ unhandled = <<>>
    /\ serial_port = "open"
    /\ pool_state = "open"
    /\ loop_state = "running"
    /\ read_on_closed_port = FALSE

\* an empty database
InitDataBase ==
    /\ tables = <<>>
    /\ indexes = {}
    /\ last_store = None
    /\ store_calls = <<>>

InitPipeline ==
    /\ data_to_parse = <<>>
    /\ time_flag = FALSE
    /\ executor = <<>>
    /\ stored = <<>>
    /\ received = <<>>
    /\ dispatched = <<>>
    /\ decoded = <<>>

-----------------------------------------------------------------------------
(* Calls of the DataParser methods *)

\* data_parser.parse_time_message(data)
ParseTime ==
    \* the Time messages decoded, each with the fields the device put in it:
    \* tow, wno, leap, ck_a, ck_b
    \E m \in { [data |-> TestTimeFrame, fields |-> <<379328, 1073, 18, 163, 239>>] }
             \cup { [data |-> TimeFrame(f[1], f[2], f[3], f[4], f[5]), fields |-> f] :
                      f \in { <<379329, 1073, 17, 164, 240>>,
                              <<5, -1, 0, 1, 2>> } },
       t \in Ticks :
        LET r == parse_time_message(parser, m.data, CalendarYear(t), t)
        IN  /\ parser' = r.self
            /\ clock' = t
            /\ last_time' = Some([data |-> m.data, fields |-> m.fields,
                                  year |-> CalendarYear(t), now |-> t])
            /\ UNCHANGED <<returned, samples>>

\* data_parser.parse_time_message(data) on a Time message of any second near the epoch
ParseEpochTime ==
    \* Time messages of the first seconds of the Galileo time scale and of the
    \* last seconds before it, next to the one of the tests, one with an odd
    \* count of leap seconds and two of a week before 1970
    \E m \in ({ [data |-> TestTimeFrame, fields |-> <<379328, 1073, 18, 163, 239>>] }
              \cup { [data |-> TimeFrame(tow, wno, 0, 1, 2), fields |-> <<tow, wno, 0, 1, 2>>] :
                       tow \in 0..5, wno \in {0, 1} }
              \cup { [data |-> TimeFrame(f[1], f[2], f[3], 1, 2),
                      fields |-> <<f[1], f[2], f[3], 1, 2>>] :
                       f \in { <<604799, -1, 0>>, <<379329, 1073, 17>>,
                               <<0, -1547, 0>>, <<1, -1547, 255>> } }), t \in Ticks :
        LET r == parse_time_message(parser, m.data, CalendarYear(t), t)
        IN  /\ parser' = r.self
            /\ clock' = t
            \* before: the message decoded before this one and the Galileo
            \* timestamp it got
            /\ last_time' = Some([data |-> m.data, fields |-> m.fields,
                                  year |-> CalendarYear(t), now |-> t,
                                  before |->
                                      IF last_time = None THEN None
                                      ELSE Some([fields |-> last_time[1].fields,
                                                 galileo |-> parser.timestamp_message_galileo[1]])])
            /\ UNCHANGED <<returned, samples>>

\* data_parser.parse_clock_message(data)
ParseClock(clock_samples) ==
    \E c \in clock_samples :
        LET r == parse_clock_message(parser, ClockFrame(c[1], c[2]))
        IN  /\ parser' = r.self
            /\ samples' = IF samples = <<>> THEN <<c>>
                          ELSE <<samples[Len(samples)], c>>
            /\ UNCHANGED <<clock, returned, last_time>>

\* data_parser.parse_message(data)
ParseNav(messages) ==
    \E m \in messages :
        LET r == parse_message(parser, m.data)
        IN  /\ returned' = Some([data |-> m.data, fields |-> m.fields,
                                 attack |-> parser.attack, time |-> last_time,
                                 table |-> r.table, record |-> r.record,
                                 tasks |-> r.tasks, raised |-> r.raised])
            /\ UNCHANGED <<parser, clock, last_time, samples>>

\* DataParser.read_auth_bits(data)
ReadAuthBits ==
    \* the 8 bytes given to read_auth_bits: the test vector, every input whose
    \* bytes are 0x00 or 0xFF, every input with one bit set
    \E data \in ({TEST_AUTH_BYTES} \cup [1..8 -> {0, 255}] \cup {[i \in 1..8 |-> IF i = (k \div 8) + 1 THEN 2 ^ (k % 8) ELSE 0] : k \in 0..63}) :
        /\ call = None
        /\ call' = Some([fn |-> "read_auth_bits", arg |-> data,
                         out |-> read_auth_bits(data), again |-> <<>>])
        /\ UNCHANGED <<calls, register>>

\* DataParser.extract_galileo_data(data), then the same method on the bytes
\* of the string it returned
ExtractGalileoData ==
    \* the 32 bytes given to extract_galileo_data: the words of the test
    \* message, 32 different bytes, and every input with one byte set
    \E data \in ({SubSeq(TestNavFrame, 13, 44), CountingWords}
                 \cup {[i \in 1..32 |-> IF i = k THEN 255 ELSE 0] : k \in 1..32}) :
        /\ call = None
        /\ call' = Some([fn |-> "extract_galileo_data", arg |-> data,
                         out |-> extract_galileo_data(data),
                         again |-> extract_galileo_data(
                                       fromhex(extract_galileo_data(data)))])
        /\ UNCHANGED <<calls, register>>

\* the second half of DataParser.convolution on an outputy of which one bit
\* is set
Interleaving ==
    \E i \in 0..239 :
        /\ call = None
        /\ calls = <<>>
        /\ LET outputy == [k \in 1..240 |-> IF k = i + 1 THEN 1 ELSE 0]
           IN  call' = Some([fn |-> "interleaver", arg |-> outputy,
                             out |-> interleaver(outputy), again |-> <<>>])
        /\ UNCHANGED <<calls, register>>

\* DataParser.convolution(data)
Convolution ==
    \* the 15 bytes given to convolution: the two chunks validate_data gets for
    \* the test message, and inputs of zeros, of ones and of different bytes
    \E data \in ({ Slice(fromhex(extract_galileo_data(SubSeq(TestNavFrame, 13, 44))), 0, 15),
                   Slice(fromhex(extract_galileo_data(SubSeq(TestNavFrame, 13, 44))), 15, 30),
                   Fill(15, 0), Fill(15, 255), SubSeq(CountingWords, 1, 15) }) :
        /\ Len(calls) < MaxCalls
        /\ calls' = Append(calls, [arg |-> data, out |-> convolution(data),
                                   encoded |-> encoder(data, register).outputy])
        /\ register' = convolution_run(data, register).state
        /\ UNCHANGED call

-----------------------------------------------------------------------------
(* DataParser: validate_data and the validation file *)

\* list(d.keys()) of a dict kept as its items in insertion order
keys(d) == [i \in 1..Len(d) |-> d[i].key]

\* d[key].append(value) on a defaultdict(list): a missing key is inserted
\* after every key the dict holds
DefaultDictAppend(d, key, value) ==
    IF \E i \in 1..Len(d) : d[i].key = key
    THEN [i \in 1..Len(d) |->
            IF d[i].key = key
            THEN [d[i] EXCEPT !.values = Append(@, value)]
            ELSE d[i]]
    ELSE Append(d, [key |-> key, values |-> <<value>>])

\* list(self.valid_data_to_store.keys())[0:50], as positions of the dict
KeysToStore_last(d) == {i \in 1..Len(d) : i > Len(d) - 50}

KeysToStore(d) == {i \in 1..Len(d) : i <= 50}

\* the items of d at the positions of a set, in the order of d
RECURSIVE Select(_, _, _)
Select(d, positions, i) ==
    IF i > Len(d) THEN <<>>
    ELSE (IF i \in positions THEN <<d[i]>> ELSE <<>>)
         \o Select(d, positions, i + 1)

\* the flush without `del self.valid_data_to_store[key]`
store_internally_data_keys_kept(d, timestamp, data, satellite_id) ==
    LET d1 == DefaultDictAppend(d, timestamp, [satellite_id |-> satellite_id, data_validated |-> data])
    IN  IF Len(d1) = 60
        THEN [held  |-> keys(d1),
              store |-> Some(Select(d1, KeysToStore(d1), 1)),
              dict  |-> d1]
        ELSE [held |-> keys(d1), store |-> None, dict |-> d1]

\* DataParser._store_internally_data up to its await: the dict it leaves
\* and the store it hands to store_validated_data_in_file
store_internally_data(d, timestamp, data, satellite_id) ==
    LET d1 == DefaultDictAppend(d, timestamp, [satellite_id |-> satellite_id, data_validated |-> data])
    IN  IF Len(d1) = 60
        THEN [held  |-> keys(d1),
              store |-> Some(Select(d1, KeysToStore(d1), 1)),
              dict  |-> Select(d1, (1..Len(d1)) \ KeysToStore(d1), 1)]
        ELSE [held |-> keys(d1), store |-> None, dict |-> d1]

\* DataParser.store_validated_data_in_file, fp opened in append mode
store_validated_data_in_file(fp, data_to_store) ==
    fp \o Flatten([i \in 1..Len(data_to_store) |->
                      [j \in 1..Len(data_to_store[i].values) |->
                          <<data_to_store[i].key,
                            data_to_store[i].values[j].satellite_id,
                            data_to_store[i].values[j].data_validated>>]])

\* ThreadPoolExecutor(max_workers=3)
max_workers == 3

\* a sequence without its element i
Without(jobs, i) == SubSeq(jobs, 1, i - 1) \o SubSeq(jobs, i + 1, Len(jobs))

\* nothing has been validated
InitValidation ==
    /\ valid_data_to_store = <<>>
    /\ validation_executor = <<>>
    /\ file = <<>>
    /\ fed = 0
    /\ overtakes = 0
    /\ last_flush = None

\* data_parser.parse_time_message(data) on the Time message of the next slot
ValidationTime ==
    /\ fed % 2 = 0
    /\ fed \div 2 < MaxPages
    \* the Time message of the k-th two-second page slot
    /\ LET tow == 379328 + 2 * (fed \div 2)
           m == [data |-> TimeFrame(tow, 1073, 18, 163, 239),
                 fields |-> <<tow, 1073, 18, 163, 239>>]
           r == parse_time_message(parser, m.data, CalendarYear(clock), clock)
       IN  /\ parser' = r.self
           /\ last_time' = Some([data |-> m.data, fields |-> m.fields,
                                 year |-> CalendarYear(clock), now |-> clock])
    /\ fed' = fed + 1
    /\ UNCHANGED <<clock, returned, samples, valid_data_to_store,
                   validation_executor, file, overtakes, last_flush>>

\* data_parser.parse_message(data) with validation active: the two
\* validate_data tasks it creates each submit a convolution to the executor
ValidationPage ==
    /\ fed % 2 = 1
    /\ Len(validation_executor) + 2 <= MaxJobs
    \* the Navigation message of the k-th slot: the satellites take turns
    /\ LET sv_id == IF (fed \div 2) % 2 = 0 THEN 18 ELSE 3
           m == CHOOSE n \in NavMessages : n.fields[2] = sv_id
           r == parse_message(parser, m.data)
       IN  /\ returned' = Some([data |-> m.data, fields |-> m.fields,
                                attack |-> parser.attack, time |-> last_time,
                                table |-> r.table, record |-> r.record,
                                tasks |-> r.tasks, raised |-> r.raised])
           /\ validation_executor' =
                  validation_executor \o
                  [i \in 1..Len(r.tasks) |->
                      [fn |-> "convolution", timestamp |-> r.tasks[i][1],
                       data |-> r.tasks[i][2], satellite_id |-> r.tasks[i][3],
                       store |-> None]]
    /\ fed' = fed + 1
    /\ UNCHANGED <<parser, clock, last_time, samples, valid_data_to_store,
                   file, overtakes, last_flush>>

\* a worker thread finishes job i: an older job may still be running
Finish(i) ==
    /\ i \in 1..Len(validation_executor) /\ i <= max_workers
    /\ i > 1 => (overtakes < MaxOvertakes /\ fed \div 2 >= QuietPages)
    /\ overtakes' = IF i > 1 THEN overtakes + 1 ELSE overtakes

\* DataParser.validate_data resumes with the result of convolution and
\* awaits _store_internally_data
ValidateData(i) ==
    /\ Finish(i)
    /\ validation_executor[i].fn = "convolution"
    /\ \E run \in {convolution_run(validation_executor[i].data, register)} :
       \E r \in {store_internally_data(valid_data_to_store,
                                       validation_executor[i].timestamp,
                                       run.out,
                                       validation_executor[i].satellite_id)} :
           /\ register' = run.state
           /\ valid_data_to_store' = r.dict
           /\ validation_executor' =
                  IF r.store = None
                  THEN Without(validation_executor, i)
                  ELSE Append(Without(validation_executor, i),
                              [fn |-> "store_validated_data_in_file",
                               timestamp |-> 0, data |-> <<>>,
                               satellite_id |-> 0, store |-> r.store])
           /\ last_flush' =
                  IF r.store = None THEN last_flush
                  ELSE Some([held |-> r.held, store |-> r.store[1],
                             left |-> keys(r.dict)])
    /\ UNCHANGED <<call, calls, file, fed>>

\* a worker thread runs store_validated_data_in_file
StoreValidatedDataInFile(i) ==
    /\ Finish(i)
    /\ validation_executor[i].fn = "store_validated_data_in_file"
    /\ file' = store_validated_data_in_file(file, validation_executor[i].store[1])
    /\ validation_executor' = Without(validation_executor, i)
    /\ UNCHANGED <<codecVars, valid_data_to_store, fed, last_flush>>

-----------------------------------------------------------------------------
(* UbloxReceiver: get_data, parse_data and the parse_data_executor *)

\* asyncio.Queue(): the maxsize of data_to_parse is the default, 0
maxsize == 0

\* asyncio.Queue.full(): a queue whose maxsize is not positive is never full
full(queue) == IF maxsize <= 0 THEN FALSE ELSE Len(queue) >= maxsize

\* get_data: `await self.data_to_parse.put(message)` for a message the
\* reader yielded, one of frames; put waits while the queue is full
get_data(frames, limit) ==
    \E message \in frames :
        /\ Len(received) < limit
        /\ ~full(data_to_parse)
        /\ data_to_parse' = Append(data_to_parse, message)
        /\ received' = Append(received, message)
        /\ UNCHANGED <<time_flag, executor, stored, dispatched, decoded>>
        /\ UNCHANGED parserVars

\* one iteration of the loop of parse_data
ParseData ==
    /\ data_to_parse # <<>>
    /\ LET data == Head(data_to_parse)
           idx  == Len(dispatched) + 1
       IN  /\ data_to_parse' = Tail(data_to_parse)
           /\ IF data[1] = 1
              THEN /\ time_flag' = TRUE
                   /\ executor' = Append(executor,
                          [fn |-> "parse_time_message", data |-> data, idx |-> idx])
                   /\ dispatched' = Append(dispatched, "parse_time_message")
              ELSE IF data[1] = 2 /\ time_flag /\ data[5] = 2
              THEN /\ executor' = Append(executor,
                          [fn |-> "data_to_store", data |-> data, idx |-> idx])
                   /\ dispatched' = Append(dispatched, "data_to_store")
                   /\ UNCHANGED time_flag
              ELSE /\ dispatched' = Append(dispatched, "ignored")
                   /\ UNCHANGED <<time_flag, executor>>
    /\ UNCHANGED <<stored, received, decoded>>
    /\ UNCHANGED parserVars

\* the single worker thread takes the oldest job and runs it to its end
ExecutorRun ==
    /\ executor # <<>>
    /\ LET job == Head(executor) IN
       /\ executor' = Tail(executor)
       /\ IF job.fn = "parse_time_message"
          THEN \E t \in Ticks :
                  LET r == parse_time_message(parser, job.data, CalendarYear(t), t)
                  IN  /\ parser' = r.self
                      /\ clock' = t
                      /\ decoded' = Append(decoded,
                             [idx |-> job.idx, fn |-> job.fn, now |-> t,
                              raised |-> r.raised])
                      /\ UNCHANGED stored
          ELSE LET r == parse_message(parser, job.data)
               IN  /\ stored' = IF r.raised = ""
                                THEN Append(stored, [idx |-> job.idx,
                                                     table |-> r.table,
                                                     record |-> r.record])
                                ELSE stored
                   /\ decoded' = Append(decoded,
                          [idx |-> job.idx, fn |-> job.fn, now |-> clock,
                           raised |-> r.raised])
                   /\ UNCHANGED <<parser, clock>>
    /\ UNCHANGED <<data_to_parse, time_flag, received, dispatched,
                   returned, last_time, samples>>

-----------------------------------------------------------------------------
(* UbloxReceiver: the worker threads of parse_data_executor *)

\* ThreadPoolExecutor(max_workers=1)
parse_data_executor_max_workers_2 == 1 + 1

parse_data_executor_max_workers == 1

\* no worker thread runs a job
InitThreads ==
    /\ threads = <<>>
    /\ torn_read = FALSE

\* an idle worker thread takes the oldest job of the work queue
WorkerTakes ==
    /\ executor # <<>>
    /\ Len(threads) < parse_data_executor_max_workers
    /\ threads' = Append(threads, [job |-> Head(executor), pc |-> "start"])
    /\ executor' = Tail(executor)
    /\ UNCHANGED <<data_to_parse, time_flag, stored, received, dispatched,
                   decoded, torn_read>>

\* thread i runs the first statements of parse_time_message
TimeDecodeBegins(i) ==
    /\ i \in 1..Len(threads)
    /\ threads[i].job.fn = "parse_time_message"
    /\ threads[i].pc = "start"
    /\ LET data == threads[i].job.data
       IN  parser' =
               [parser EXCEPT
                   !.year = Some(CalendarYear(clock)),
                   !.reception_time = Some(clock),
                   !.raw_gal_tow = Some(from_bytes_little(Slice(data, 8, 12))),
                   !.raw_gal_wno =
                       Some(from_bytes_little_signed(Slice(data, 16, 18)))]
    /\ threads' = [threads EXCEPT ![i].pc = "raw"]
    /\ UNCHANGED <<clock, returned, last_time, samples, pipelineVars, torn_read>>

\* thread i runs parse_time_message to its end
TimeDecodeEnds(i) ==
    /\ i \in 1..Len(threads)
    /\ threads[i].job.fn = "parse_time_message"
    /\ threads[i].pc = "raw"
    /\ LET r == parse_time_message(parser, threads[i].job.data,
                                   CalendarYear(clock), clock)
       IN  /\ parser' = r.self
           /\ decoded' = Append(decoded,
                  [idx |-> threads[i].job.idx, fn |-> threads[i].job.fn,
                   now |-> clock, raised |-> r.raised])
    /\ threads' = Without(threads, i)
    /\ UNCHANGED <<clock, returned, last_time, samples, data_to_parse,
                   time_flag, executor, stored, received, dispatched,
                   torn_read>>

\* thread i runs data_to_store, which reads the attributes parse_time_message
\* wrote
NavDecode(i) ==
    /\ i \in 1..Len(threads)
    /\ threads[i].job.fn = "data_to_store"
    /\ LET r == parse_message(parser, threads[i].job.data)
       IN  /\ stored' = IF r.raised = ""
                        THEN Append(stored, [idx |-> threads[i].job.idx,
                                             table |-> r.table,
                                             record |-> r.record])
                        ELSE stored
           /\ decoded' = Append(decoded,
                  [idx |-> threads[i].job.idx, fn |-> threads[i].job.fn,
                   now |-> clock, raised |-> r.raised])
    /\ threads' = Without(threads, i)
    \* another thread is between the first and the last attribute
    \* assignment of parse_time_message
    /\ torn_read' = (torn_read \/ \E j \in 1..Len(threads) :
                                      /\ j # i
                                      /\ threads[j].job.fn = "parse_time_message"
                                      /\ threads[j].pc = "raw")
    /\ UNCHANGED <<parserVars, data_to_parse, time_flag, executor, received,
                   dispatched>>

-----------------------------------------------------------------------------
(* UbloxReceiver: the tasks of the loop, handle_exception and           *)
(* close_all_connections                                                 *)

\* one iteration of get_data whose reads succeed
GetDataReads ==
    /\ loop_state = "running"
    /\ get_data_task = "running"
    /\ serial_port = "open"
    \* the frames the reader yields in the shutdown specification: a Time
    \* message, a class 1 frame of 24 bytes, a Galileo message, a class 5 frame
    /\ get_data({TestTimeFrame, Frame24, TestNavFrame, Frame6}, MaxReads)
    /\ UNCHANGED lifeVars

\* one iteration of get_data in which a read raises SerialException (any
\* read on a closed port does): ublox_message raises UbloxSerialException,
\* which ends the task, and nobody retrieves the exception of the task
GetDataFails ==
    /\ loop_state = "running"
    /\ get_data_task = "running"
    /\ get_data_task' = "failed"
    /\ unhandled' = Append(unhandled, "UbloxSerialException")
    /\ read_on_closed_port' = (read_on_closed_port \/ serial_port = "closed")
    /\ UNCHANGED <<parse_data_task, closers, signals, serial_port, pool_state,
                   loop_state>>
    /\ UNCHANGED <<parserVars, pipelineVars>>

\* one iteration of the loop of parse_data
ParseDataRuns ==
    /\ loop_state = "running"
    /\ parse_data_task = "running"
    /\ ParseData
    /\ UNCHANGED lifeVars

\* the worker thread runs a job; the exception of a job is set on a future
\* that asyncio.ensure_future returned and nobody keeps
WorkerRuns ==
    /\ ExecutorRun
    /\ unhandled' = IF loop_state = "running" /\ decoded'[Len(decoded')].raised # ""
                    THEN Append(unhandled, decoded'[Len(decoded')].raised)
                    ELSE unhandled
    /\ UNCHANGED <<get_data_task, parse_data_task, closers, signals, serial_port,
                   pool_state, loop_state, read_on_closed_port>>

\* loop.add_signal_handler: a stop signal creates a close_all_connections task
StopSignal ==
    /\ loop_state = "running"
    /\ signals < MaxSignals
    /\ signals' = signals + 1
    /\ closers' = Append(closers, [cause |-> "signal", pc |-> "start"])
    /\ UNCHANGED <<get_data_task, parse_data_task, unhandled, serial_port,
                   pool_state, loop_state, read_on_closed_port>>
    /\ UNCHANGED <<parserVars, pipelineVars>>

\* handle_exception: the loop reports an exception nobody retrieved, the
\* handler creates a close_all_connections task with it as msg
handle_exception ==
    /\ loop_state = "running"
    /\ unhandled # <<>>
    /\ unhandled' = Tail(unhandled)
    /\ closers' = Append(closers, [cause |-> Head(unhandled), pc |-> "start"])
    /\ UNCHANGED <<get_data_task, parse_data_task, signals, serial_port,
                   pool_state, loop_state, read_on_closed_port>>
    /\ UNCHANGED <<parserVars, pipelineVars>>

\* task.cancel(): CancelledError is thrown in a pending task at the await it
\* waits on, and nothing in get_data, parse_data or close_all_connections
\* catches it
cancel_ignored(state) == state

cancel(state) ==
    \* a task that has been created and has not finished
    IF state \in {"running", "start", "shut_down", "stop_serial", "pool_close"}
    THEN "cancelled"
    ELSE state

\* the closer i moves from pc to next
Advance(i, pc, next) ==
    /\ loop_state = "running"
    /\ i \in 1..Len(closers)
    /\ closers[i].pc = pc
    /\ closers' = [closers EXCEPT ![i].pc = next]

\* shut_down cancelling the current task with the others
shut_down_cancels_all(i) ==
    /\ loop_state = "running"
    /\ i \in 1..Len(closers)
    /\ closers[i].pc = "start"
    /\ get_data_task' = cancel(get_data_task)
    /\ parse_data_task' = cancel(parse_data_task)
    /\ closers' = [j \in 1..Len(closers) |->
                       [closers[j] EXCEPT !.pc = cancel(closers[j].pc)]]
    /\ UNCHANGED <<signals, unhandled, serial_port, pool_state, loop_state,
                   read_on_closed_port>>
    /\ UNCHANGED <<parserVars, pipelineVars>>

\* close_all_connections up to `await self.shut_down()`: every task but the
\* current one is cancelled, and gather waits for them to end
shut_down(i) ==
    /\ loop_state = "running"
    /\ i \in 1..Len(closers)
    /\ closers[i].pc = "start"
    /\ get_data_task' = cancel(get_data_task)
    /\ parse_data_task' = cancel(parse_data_task)
    /\ closers' = [j \in 1..Len(closers) |->
                       IF j = i THEN [closers[j] EXCEPT !.pc = "shut_down"]
                       ELSE [closers[j] EXCEPT !.pc = cancel(closers[j].pc)]]
    /\ UNCHANGED <<signals, unhandled, serial_port, pool_state, loop_state,
                   read_on_closed_port>>
    /\ UNCHANGED <<parserVars, pipelineVars>>

\* `await self.serial.stop_serial()`: SerialReceiver.stop_serial closes the port
stop_serial(i) ==
    /\ Advance(i, "shut_down", "stop_serial")
    /\ serial_port' = "closed"
    /\ UNCHANGED <<get_data_task, parse_data_task, signals, unhandled,
                   pool_state, loop_state, read_on_closed_port>>
    /\ UNCHANGED <<parserVars, pipelineVars>>

\* `await asyncio.wait_for(self.pool.close(), timeout=1)`
pool_close(i) ==
    /\ Advance(i, "stop_serial", "pool_close")
    /\ pool_state' = "closed"
    /\ UNCHANGED <<get_data_task, parse_data_task, signals, unhandled,
                   serial_port, loop_state, read_on_closed_port>>
    /\ UNCHANGED <<parserVars, pipelineVars>>

\* `self.parse_data_executor.shutdown(wait=False)`, which does not wait for
\* the jobs of the executor, then `self.loop.stop()`
loop_stop(i) ==
    /\ Advance(i, "pool_close", "done")
    /\ loop_state' = "stopped"
    /\ UNCHANGED <<get_data_task, parse_data_task, signals, unhandled,
                   serial_port, pool_state, read_on_closed_port>>
    /\ UNCHANGED <<parserVars, pipelineVars>>

-----------------------------------------------------------------------------
(* DataBase.store_data (database/postgresql.py) *)

\* what a statement leaves: the tables, the indexes, the exception raised
\* and the number of CREATE TABLE statements executed
Db(t, x, exception, created) ==
    [tables |-> t, indexes |-> x, raised |-> exception, created |-> created]

\* the names of the relations of the database: tables and indexes share them
Relations(db) == DOMAIN db.tables \cup db.indexes

\* INSERT INTO table ... VALUES data_to_store; timestampmessage_unix, the
\* second column, is the primary key
Insert(db, table, data_to_store) ==
    IF table \notin DOMAIN db.tables
    THEN [db EXCEPT !.raised = "UndefinedTableError"]
    ELSE IF \E row \in db.tables[table] : row[2] = data_to_store[2]
    THEN [db EXCEPT !.raised = "UniqueViolationError"]
    ELSE [db EXCEPT !.tables[table] = @ \cup {data_to_store}, !.raised = ""]

\* CREATE TABLE table (...)
CreateTable(db, table) ==
    IF table \in Relations(db)
    THEN [db EXCEPT !.raised = "DuplicateTableError"]
    ELSE Db(db.tables @@ (table :> {}), db.indexes, "", db.created + 1)

\* CREATE INDEX CONCURRENTLY name on table (...)
CreateIndex(db, name) ==
    IF name \in Relations(db)
    THEN [db EXCEPT !.raised = "DuplicateTableError"]
    ELSE [db EXCEPT !.indexes = @ \cup {name}, !.raised = ""]

\* DataBase.store_data: only UndefinedTableError is caught
RECURSIVE store_data(_, _, _)
store_data(db, table, data_to_store) ==
    LET inserted == Insert(db, table, data_to_store) IN
    IF inserted.raised # "UndefinedTableError" THEN inserted
    ELSE LET created == CreateTable([db EXCEPT !.raised = ""], table) IN
         IF created.raised # "" THEN created
         ELSE LET indexed == CreateIndex(created, "idx_timestampmessage_unix") IN
              IF indexed.raised # "" THEN indexed
              ELSE store_data(indexed, table, data_to_store)

\* DATA_TO_STORE of tests/constants.py with the unix timestamp given
DataToStore(unix) ==
    <<0, unix, 379328, 1073, 18, hex(TestNavFrame), 0, 18, 9, 124, 74, 163, 239,
      649329725>>

\* await database.store_data(table, data_to_store)
StoreData ==
    \* the tables and the tuples store_data is called with
    \E table \in {"2021_Italy_3", "2021_Italy_18", "2022_Italy_3"},
       data_to_store \in {DataToStore(<<1584609, 709997>>),
                          DataToStore(<<1584609, 711997>>)} :
        LET r == store_data(Db(tables, indexes, "", 0), table, data_to_store)
        IN  /\ tables' = r.tables
            /\ indexes' = r.indexes
            /\ last_store' = Some([table |-> table, data |-> data_to_store,
                                   existed |-> table \in DOMAIN tables,
                                   raised |-> r.raised, created |-> r.created])
            /\ UNCHANGED store_calls

\* a store_data coroutine is started while others are running: the pool
\* holds up to 10 connections
StoreDataBegins ==
    \E table \in {"2021_Italy_3", "2021_Italy_18"},
       data_to_store \in {DataToStore(<<1584609, 709997>>),
                          DataToStore(<<1584609, 711997>>)} :
        /\ Len(store_calls) < MaxStores
        /\ store_calls' =
               Append(store_calls,
                      [table |-> table, data |-> data_to_store, pc |-> "insert",
                       existed |-> table \in DOMAIN tables, raised |-> ""])
        /\ UNCHANGED <<tables, indexes, last_store>>

\* the store_data call i runs to its next await: one statement of
\* pool.execute. An exception other than the UndefinedTableError of the
\* INSERT ends the call
StoreDataRuns(i) ==
    /\ i \in 1..Len(store_calls)
    /\ store_calls[i].pc \in {"insert", "create_table", "create_index"}
    /\ LET c  == store_calls[i]
           db == Db(tables, indexes, "", 0)
           r  == CASE c.pc = "insert" -> Insert(db, c.table, c.data)
                   [] c.pc = "create_table" -> CreateTable(db, c.table)
                   [] c.pc = "create_index" ->
                          CreateIndex(db, "idx_timestampmessage_unix")
           pc == CASE c.pc = "insert" /\ r.raised = "" -> "done"
                   [] c.pc = "insert" /\ r.raised = "UndefinedTableError" ->
                          "create_table"
                   [] c.pc = "create_table" /\ r.raised = "" -> "create_index"
                   \* `await self.store_data(table, data_to_store)`
                   [] c.pc = "create_index" /\ r.raised = "" -> "insert"
                   [] OTHER -> "raised"
       IN  /\ tables' = r.tables
           /\ indexes' = r.indexes
           /\ store_calls' =
                  [store_calls EXCEPT
                      ![i].pc = pc,
                      ![i].raised = IF pc = "raised" THEN r.raised ELSE ""]
    /\ UNCHANGED last_store

-----------------------------------------------------------------------------
(* Specifications *)

\* the reader alone, on streams of frames of several sizes
Init ==
    /\ (/\ sent \in ([1..MaxChunks -> {Frame24, Frame26, Frame23}] \cup CleaningTestStreams)
        /\ wire = WireOf(sent)
        /\ InitFlags)
    /\ InitParser({50}, {FALSE})
    /\ InitPipeline
    /\ InitCodec
    /\ InitLife
    /\ InitDataBase
    /\ InitValidation
    /\ InitThreads

Next ==
    \/ ReadOk /\ UNCHANGED <<parserVars, pipelineVars, codecVars, lifeVars, dbVars, validationVars, threadVars>>
    \/ ReadFails /\ UNCHANGED <<parserVars, pipelineVars, codecVars, lifeVars, dbVars, validationVars, threadVars>>

Spec == Init /\ [][Next]_vars

\* parse_clock_message called on any sequence of clock samples
InitDetector ==
    /\ IdleReader
    /\ InitParser({50, 200}, BOOLEAN)
    /\ InitPipeline
    /\ InitCodec
    /\ InitLife
    /\ InitDataBase
    /\ InitValidation
    /\ InitThreads

SpecDetector ==
    InitDetector
    \* the clock samples decoded: bias, drift
    /\ [][ParseClock({ <<100, 10>>, <<100000, 10>>, <<1000090, 10>>, <<120, 60>>,
                       <<0, 10>>, <<100, 0>>, <<-81409, -1264>> })
           /\ UNCHANGED <<readerVars, pipelineVars, codecVars, lifeVars, dbVars, validationVars, threadVars>>]_vars

\* the methods of one DataParser called in any order
InitDecoder ==
    /\ IdleReader
    /\ InitParser({50}, BOOLEAN)
    /\ InitPipeline
    /\ InitCodec
    /\ InitLife
    /\ InitDataBase
    /\ InitValidation
    /\ InitThreads

NextDecoder ==
    \/ ParseTime /\ UNCHANGED <<readerVars, pipelineVars, codecVars, lifeVars, dbVars, validationVars, threadVars>>
    \* two samples that are not consistent with one another
    \/ ParseClock({ <<100, 10>>, <<100000, 10>> }) /\ UNCHANGED <<readerVars, pipelineVars, codecVars, lifeVars, dbVars, validationVars, threadVars>>
    \/ ParseNav(NavMessages) /\ UNCHANGED <<readerVars, pipelineVars, codecVars, lifeVars, dbVars, validationVars, threadVars>>

SpecDecoder == InitDecoder /\ [][NextDecoder]_vars

\* Time and Navigation messages decoded in any order, one of the Navigation
\* messages a short one
NextFrames ==
    \/ ParseTime /\ UNCHANGED <<readerVars, pipelineVars, codecVars, lifeVars, dbVars, validationVars, threadVars>>
    \/ ParseNav(NavMessages \cup {ShortNavMessage}) /\ UNCHANGED <<readerVars, pipelineVars, codecVars, lifeVars, dbVars, validationVars, threadVars>>

SpecFrames == InitDecoder /\ [][NextFrames]_vars

\* a DataParser whose methods are not called
InitStatic ==
    /\ IdleReader
    /\ InitParser({50}, {FALSE})
    /\ InitPipeline
    /\ InitCodec
    /\ InitLife
    /\ InitDataBase
    /\ InitValidation
    /\ InitThreads

\* one call of a bit-field method on any of its inputs
NextBitField ==
    \/ ReadAuthBits /\ UNCHANGED <<readerVars, parserVars, pipelineVars, lifeVars, dbVars, validationVars, threadVars>>
    \/ ExtractGalileoData /\ UNCHANGED <<readerVars, parserVars, pipelineVars, lifeVars, dbVars, validationVars, threadVars>>

SpecBitField == InitStatic /\ [][NextBitField]_vars

\* calls of convolution one after the other
SpecCodec ==
    InitStatic
    /\ [][/\ Convolution
           /\ UNCHANGED <<readerVars, parserVars, pipelineVars, lifeVars, dbVars, validationVars, threadVars>>]_vars

\* the running receiver: reader, dispatcher, worker thread, stop signals and
\* the close_all_connections tasks
NextLifecycle ==
    \/ GetDataReads /\ UNCHANGED <<readerVars, codecVars, dbVars, validationVars, threadVars>>
    \/ GetDataFails /\ UNCHANGED <<readerVars, codecVars, dbVars, validationVars, threadVars>>
    \/ ParseDataRuns /\ UNCHANGED <<readerVars, codecVars, dbVars, validationVars, threadVars>>
    \/ WorkerRuns /\ UNCHANGED <<readerVars, codecVars, dbVars, validationVars, threadVars>>
    \/ StopSignal /\ UNCHANGED <<readerVars, codecVars, dbVars, validationVars, threadVars>>
    \/ handle_exception /\ UNCHANGED <<readerVars, codecVars, dbVars, validationVars, threadVars>>
    \/ \E i \in 1..Len(closers) :
           shut_down(i) /\ UNCHANGED <<readerVars, codecVars, dbVars, validationVars, threadVars>>
    \/ \E i \in 1..Len(closers) :
           stop_serial(i) /\ UNCHANGED <<readerVars, codecVars, dbVars, validationVars, threadVars>>
    \/ \E i \in 1..Len(closers) :
           pool_close(i) /\ UNCHANGED <<readerVars, codecVars, dbVars, validationVars, threadVars>>
    \/ \E i \in 1..Len(closers) :
           loop_stop(i) /\ UNCHANGED <<readerVars, codecVars, dbVars, validationVars, threadVars>>

SpecLifecycle == InitStatic /\ [][NextLifecycle]_vars

\* a step of one of the close_all_connections tasks
CloserRuns ==
    /\ \E i \in 1..Len(closers) :
           shut_down(i) \/ stop_serial(i) \/ pool_close(i) \/ loop_stop(i)
    /\ UNCHANGED <<readerVars, codecVars, dbVars, validationVars, threadVars>>

\* the running receiver with the scheduling of the event loop: run_forever
\* runs every task that is ready, so a close_all_connections task that can
\* take a step takes one
FairLifecycle == SpecLifecycle /\ WF_vars(CloserRuns)

\* calls of store_data one after the other
SpecDataBase ==
    InitStatic
    /\ [][/\ StoreData
           /\ UNCHANGED <<readerVars, parserVars, pipelineVars, codecVars, lifeVars, validationVars, threadVars>>]_vars

\* store_data calls that run concurrently
NextStores ==
    \/ StoreDataBegins /\ UNCHANGED <<readerVars, parserVars, pipelineVars, codecVars, lifeVars, validationVars, threadVars>>
    \/ \E i \in 1..MaxStores :
           StoreDataRuns(i) /\ UNCHANGED <<readerVars, parserVars, pipelineVars, codecVars, lifeVars, validationVars, threadVars>>

SpecStores == InitStatic /\ [][NextStores]_vars

\* queue, dispatch and executor of the UbloxReceiver
NextPipeline ==
    \* the frames the reader hands to get_data in the pipeline specification
    \/ get_data({ TestTimeFrame,
                   TimeFrame(5, -1, 0, 1, 2),
                   ClockFrame(100000, 10),
                   TestNavFrame,
                   NavFrame(0, 3, 10, CountingWords, 3, 4),
                   Frame6 }, MaxFrames) /\ UNCHANGED <<readerVars, codecVars, lifeVars, dbVars, validationVars, threadVars>>
    \/ ParseData /\ UNCHANGED <<readerVars, codecVars, lifeVars, dbVars, validationVars, threadVars>>
    \/ ExecutorRun /\ UNCHANGED <<readerVars, codecVars, lifeVars, dbVars, validationVars, threadVars>>

SpecPipeline == InitDecoder /\ [][NextPipeline]_vars

\* pages validated one slot after the other, the jobs of the executor
\* finishing in any order the three worker threads allow
InitValidating ==
    /\ IdleReader
    /\ InitParser({50}, {TRUE})
    /\ InitPipeline
    /\ InitCodec
    /\ InitLife
    /\ InitDataBase
    /\ InitValidation
    /\ InitThreads

NextValidation ==
    \/ ValidationTime /\ UNCHANGED <<readerVars, pipelineVars, codecVars, lifeVars, dbVars, threadVars>>
    \/ ValidationPage /\ UNCHANGED <<readerVars, pipelineVars, codecVars, lifeVars, dbVars, threadVars>>
    \/ \E i \in 1..max_workers :
           ValidateData(i) /\ UNCHANGED <<readerVars, parserVars, pipelineVars, lifeVars, dbVars, threadVars>>
    \/ \E i \in 1..max_workers :
           StoreValidatedDataInFile(i) /\ UNCHANGED <<readerVars, parserVars, pipelineVars, lifeVars, dbVars, threadVars>>

SpecValidation == InitValidating /\ [][NextValidation]_vars

\* queue, dispatch and the worker threads of parse_data_executor, a decode
\* taking more than one step
NextThreads ==
    \* the frames the reader hands to get_data in the thread specification
    \/ get_data({ TestTimeFrame, TimeFrame(5, -1, 0, 1, 2), TestNavFrame }, MaxFrames) /\ UNCHANGED <<readerVars, codecVars, lifeVars, dbVars, validationVars, threadVars>>
    \/ ParseData /\ UNCHANGED <<readerVars, codecVars, lifeVars, dbVars, validationVars, threadVars>>
    \/ WorkerTakes /\ UNCHANGED <<readerVars, parserVars, codecVars, lifeVars, dbVars, validationVars>>
    \/ \E i \in 1..Len(threads) :
           TimeDecodeBegins(i) /\ UNCHANGED <<readerVars, codecVars, lifeVars, dbVars, validationVars>>
    \/ \E i \in 1..Len(threads) :
           TimeDecodeEnds(i) /\ UNCHANGED <<readerVars, codecVars, lifeVars, dbVars, validationVars>>
    \/ \E i \in 1..Len(threads) :
           NavDecode(i) /\ UNCHANGED <<readerVars, codecVars, lifeVars, dbVars, validationVars>>

SpecThreads == InitStatic /\ [][NextThreads]_vars

\* parse_time_message called on any sequence of Time messages
SpecLatch ==
    InitStatic
    /\ [][/\ ParseEpochTime
           /\ UNCHANGED <<readerVars, pipelineVars, codecVars, lifeVars, dbVars, validationVars, threadVars>>]_vars

\* the interleaver on every outputy of which one bit is set, or calls of
\* convolution one after the other
NextInterleaver ==
    \/ Interleaving /\ UNCHANGED <<readerVars, parserVars, pipelineVars, lifeVars, dbVars, validationVars, threadVars>>
    \/ (call = None /\ Convolution) /\ UNCHANGED <<readerVars, parserVars, pipelineVars, lifeVars, dbVars, validationVars, threadVars>>

SpecInterleaver == InitStatic /\ [][NextInterleaver]_vars

\* the reader alone, on streams of well-formed frames some of which hold the
\* preamble pair
InitPairs ==
    /\ (\* streams of well-formed frames some of which hold the preamble pair
        /\ sent \in [1..MaxChunks -> {Frame24, FramePair}]
        /\ wire = WireOf(sent)
        /\ InitFlags)
    /\ InitParser({50}, {FALSE})
    /\ InitPipeline
    /\ InitCodec
    /\ InitLife
    /\ InitDataBase
    /\ InitValidation
    /\ InitThreads

SpecPairs == InitPairs /\ [][Next]_vars

-----------------------------------------------------------------------------
(* Properties of the reader, checked under Spec *)

\* a pair of consecutive bytes of f is the preamble
HasPreamblePair(f) ==
    \E k \in 2..Len(f) : f[k - 1] = 181 /\ f[k] = 98

\* header with the little-endian length N, N payload bytes, 2 trailer bytes,
\* at least 24 bytes in all and no preamble pair inside
WellFormedFrame(f) ==
    /\ Len(f) >= 24
    /\ Len(f) = f[3] + 256 * f[4] + 6
    /\ ~HasPreamblePair(f)

WellFormedStream == \A i \in 1..Len(sent) : WellFormedFrame(sent[i])

\* invocations of ublox_message that did not raise
Successful == last.calls - (IF raised = "" THEN 0 ELSE 1)

\* C1: on a stream of preamble-prefixed well-formed frames, the k-th
\* successful invocation of ublox_message yields the k-th frame of the wire,
\* preamble removed: the yielded messages are the first frames sent, in
\* order, none lost and none duplicated, in every mode
C1_FramesInWireOrder ==
    WellFormedStream =>
        /\ Len(yielded) = Successful
        /\ Len(yielded) <= Len(sent)
        /\ \A i \in 1..Len(yielded) : yielded[i] = sent[i]

\* C1 witness: a well-formed stream read through Cleaning and Transition
\* into Steady mode, where two frames have been yielded
C1_Witness ==
    /\ WellFormedStream
    /\ last.mode = "Steady"
    /\ last.status = "yield"
    /\ Len(yielded) >= 8

\* C2: a Cleaning invocation yields exactly one candidate of at least 24
\* bytes and counts it; the fifth one switches the reader to Transition, so
\* Cleaning yields five frames and no sixth.  On four short candidates
\* followed by accepted ones, the first five messages are the five accepted
\* candidates and the sixth starts at the byte where the fifth read stopped
C2_CleaningYieldsFive ==
    /\ cleaning_ublox_buffer => ublox_counter < 5 /\ ublox_counter = Len(yielded)
    /\ ~cleaning_ublox_buffer => ublox_counter = 5 /\ Len(yielded) >= 5
    /\ (last.mode = "Cleaning" /\ last.status = "yield") =>
            /\ Len(yielded) = last.yields + 1
            /\ Len(yielded) <= 5
            /\ Len(yielded[Len(yielded)]) >= 24
            /\ (Len(yielded) = 5) = first_ublox_message_after_cleaning
    /\ sent \in CleaningTestStreams =>
            /\ \A i \in 1..Len(yielded) : i <= 5 => yielded[i] = sent[4 + i]
            /\ (last.mode = "Transition" /\ last.status = "yield") =>
                    /\ Len(yielded) = 6
                    /\ yielded[6] = SubSeq(wire, last.from + 1,
                                           last.from + Len(yielded[6]))
                    /\ yielded[6] = sent[10]

\* C2 witness: the stream of the Cleaning test, after the sixth invocation
C2_Witness ==
    /\ sent \in CleaningTestStreams
    /\ last.mode = "Transition"
    /\ last.status = "yield"
    /\ Len(yielded) = 6
    /\ ublox_messages

\* C3: when a read of an invocation fails, in any mode, the invocation ends
\* with UbloxSerialException, yields nothing, and the failed read is the last
\* read it issued; nothing else makes an invocation raise
C3_SerialFailureRaises ==
    /\ last.failAt # 0 =>
            /\ raised = "UbloxSerialException"
            /\ last.status = "UbloxSerialException"
            /\ Len(yielded) = last.yields
            /\ last.reads = last.failAt
    /\ raised # "" => raised = "UbloxSerialException" /\ last.failAt # 0

\* C3 witness: in Steady mode the read of payload and checksum fails
C3_Witness ==
    /\ raised = "UbloxSerialException"
    /\ last.mode = "Steady"
    /\ last.failAt = 3

-----------------------------------------------------------------------------
(* Properties of the pipeline, checked under SpecPipeline *)

\* class 1, id 0x25
IsTimeFrame(data) == data[1] = 1 /\ data[2] = 37

\* class 1, id 0x22
IsClockFrame(data) == data[1] = 1 /\ data[2] = 34

\* class 2 and the constellation byte is the Galileo code
IsGalileoFrame(data) == data[1] = 2 /\ data[5] = 2

\* a Time message precedes the frame of index idx in the received stream
TimeBefore(idx) == \E j \in 1..(idx - 1) : IsTimeFrame(received[j])

\* C4: a dequeued frame is decoded as a Time message exactly when it is
\* (class 1, id 0x25), as a Clock message exactly when it is (class 1, id
\* 0x22), as a Navigation message only when it is class 2 of the Galileo
\* constellation; every other frame is ignored, no job runs for it
C4_Classification ==
    /\ \A i \in 1..Len(dispatched) :
        /\ (dispatched[i] = "parse_time_message") = IsTimeFrame(received[i])
        /\ (dispatched[i] = "parse_clock_message") = IsClockFrame(received[i])
        /\ dispatched[i] = "data_to_store" => IsGalileoFrame(received[i])
    /\ \A k \in 1..Len(decoded) :
        \/ IsTimeFrame(received[decoded[k].idx])
        \/ IsClockFrame(received[decoded[k].idx])
        \/ IsGalileoFrame(received[decoded[k].idx])

\* C5: a Navigation frame is decoded, and its record handed to storage, only
\* after a Time message (class 1, id 0x25) has been received
C5_NavigationNeedsTime ==
    /\ \A k \in 1..Len(decoded) :
        decoded[k].fn = "data_to_store" => TimeBefore(decoded[k].idx)
    /\ \A k \in 1..Len(stored) : TimeBefore(stored[k].idx)

\* index of the last Time message before the frame of index idx
LastTimeBefore(idx) ==
    CHOOSE j \in 1..(idx - 1) :
        /\ IsTimeFrame(received[j])
        /\ \A i \in (j + 1)..(idx - 1) : ~IsTimeFrame(received[i])

\* the tick at which the frame of index j was decoded
DecodedAt(j) ==
    (CHOOSE k \in 1..Len(decoded) : decoded[k].idx = j)

\* C6: jobs run in the order the frames were received, and the record of a
\* Navigation frame carries the time fields that decoding the last Time
\* message before it gives
C6_LatestTimeContext ==
    /\ \A k \in 1..Len(decoded) : \A m \in 1..Len(decoded) :
        k < m => decoded[k].idx < decoded[m].idx
    /\ \A k \in 1..Len(stored) :
        TimeBefore(stored[k].idx) =>
            LET j   == LastTimeBefore(stored[k].idx)
                now == decoded[DecodedAt(j)].now
                ctx == parse_time_message(DataParserInit(50, FALSE), received[j],
                                          CalendarYear(now), now).self
                rec == stored[k].record
            IN  /\ rec[1] = ctx.reception_time
                /\ rec[2] = ctx.timestamp_message_unix
                /\ rec[3] = ctx.raw_gal_tow
                /\ rec[4] = ctx.raw_gal_wno
                /\ rec[5] = ctx.raw_leap_s
                /\ rec[13] = ctx.time_raw_ck_a
                /\ rec[14] = ctx.time_raw_ck_b
                /\ rec[16] = ctx.timestamp_message_galileo

-----------------------------------------------------------------------------
(* Properties of the detector, checked under SpecDetector *)

\* C7: after every Clock sample but the first, attack is the negation of
\* drift < threshold and (|bias - prev_bias| < threshold or |bias - prev_bias|
\* within threshold of 1000000), prev_bias being the bias of the sample before
C7_AttackFlag ==
    Len(samples) = 2 =>
        LET th    == parser.threshold
            bias  == samples[2][1]
            drift == samples[2][2]
            delta == IF bias - samples[1][1] < 0 THEN samples[1][1] - bias
                     ELSE bias - samples[1][1]
        IN  parser.attack =
                ~(/\ drift < th
                  /\ \/ delta < th
                     \/ 1000000 - th < delta /\ delta < 1000000 + th)

-----------------------------------------------------------------------------
(* Properties of the decoder, checked under SpecDecoder *)

\* a parse_message call has returned a record
Returned == returned # None /\ returned[1].raised = ""

\* C8: the authenticity field of a record is 0 when the attack flag was set
\* at the call of parse_message and -1 when it was not
C8_Authenticity ==
    Returned =>
        /\ returned[1].record[15] = (IF returned[1].attack THEN 0 ELSE -1)
        /\ returned[1].record[15] \in {0, -1}

\* C8 witness: a record made while the detector flags an attack
C8_Witness ==
    /\ Returned
    /\ returned[1].attack
    /\ returned[1].record[15] = 0

\* wno * 604800 + tow of a Time message
GalileoSeconds(f) == f[2] * 604800 + f[1]

\* adjust(wno * 604800 + tow)
ExpectedGalileo(f) ==
    IF GalileoSeconds(f) % 2 = 0 THEN GalileoSeconds(f) - 3
    ELSE GalileoSeconds(f) - 2

\* adjust((wno * 604800 + tow) * 1000 + 935280000000 - leap * 1000) as
\* <<hi, lo>>: the argument is 1000 * q, q the seconds below
ExpectedUnix(f) ==
    LET q   == GalileoSeconds(f) + 935280000 - f[3]
        arg == <<q \div 1000, (q % 1000) * 1000>>
    IN  IF arg[2] % 2 = 0 THEN BigSub(arg, <<0, 3>>) ELSE BigSub(arg, <<0, 2>>)

C10_RecordLayout ==
    (Returned /\ returned[1].time # None) =>
        LET r    == returned[1]
            t    == r.time[1]
            data == r.data
            rec  == r.record
        IN  /\ r.table = ToString(t.year) \o "_Italy_" \o ToString(r.fields[2])
            /\ Len(rec) = 16
            /\ rec[1] = Some(t.now)
            /\ rec[2] = Some(ExpectedUnix(t.fields))
            /\ rec[3] = Some(t.fields[1])
            /\ rec[4] = Some(t.fields[2])
            /\ rec[5] = Some(t.fields[3])
            /\ rec[6] = hex(data)
            /\ rec[7] = extract_galileo_data(SubSeq(data, 13, 44))
            /\ rec[8] = read_auth_bits(SubSeq(data, 29, 36))
            /\ rec[9] = r.fields[2] /\ rec[9] = data[6]
            /\ rec[10] = r.fields[3] /\ rec[10] = data[9]
            /\ rec[11] = r.fields[6] /\ rec[11] = data[Len(data)]
            /\ rec[12] = r.fields[5] /\ rec[12] = data[Len(data) - 1]
            /\ rec[13] = Some(t.fields[4])
            /\ rec[14] = Some(t.fields[5])
            /\ rec[15] \in {0, -1}
            /\ rec[16] = Some(ExpectedGalileo(t.fields))

\* C10 witness: the Navigation message of the tests decoded after their Time
\* message
C10_Witness ==
    /\ Returned
    /\ returned[1].data = TestNavFrame
    /\ returned[1].time # None
    /\ returned[1].time[1].data = TestTimeFrame
    /\ returned[1].table = "2021_Italy_18"
    /\ returned[1].record[16] = Some(649329725)

-----------------------------------------------------------------------------
(* Properties of the bit-field methods, checked under SpecBitField *)

\* read_auth_bits has been called
AuthCalled == call # None /\ call[1].fn = "read_auth_bits"

\* bit k of the 8 input bytes, bit 0 the least significant bit of byte 0
InputBit(data, k) == (data[(k \div 8) + 1] \div (2 ^ (k % 8))) % 2

\* the integer whose bit k is bit[k + 1], for up to 20 bits
RECURSIVE IntFromBits(_)
IntFromBits(bit) ==
    IF bit = <<>> THEN 0 ELSE Head(bit) + 2 * IntFromBits(Tail(bit))

\* the integer whose bit k is bit[k + 1], for 40 bits, as <<hi, lo>>: the
\* low 20 bits plus 2^20 (1024 * 1024) times the high 20 bits
BigFromBits(bit) ==
    BigAdd(BigInt(IntFromBits(SubSeq(bit, 1, 20))),
           BigMulSmall(BigMulSmall(BigInt(IntFromBits(SubSeq(bit, 21, 40))), 1024),
                       1024))

\* input bits 0..13, then input bits 38..63
KeptBits(data) ==
    [k \in 1..40 |-> IF k <= 14 THEN InputBit(data, k - 1)
                     ELSE InputBit(data, k + 23)]

\* a < b for <<hi, lo>> integers
BigLess(a, b) == a[1] < b[1] \/ (a[1] = b[1] /\ a[2] < b[2])

\* C11: read_auth_bits returns the unsigned integer whose bits 0..13 are
\* input bits 0..13 and whose bits 14..39 are input bits 38..63; it is below
\* 2^40 and is 0 when every set bit of the input lies in positions 14..37
C11_AuthBits ==
    AuthCalled =>
        /\ call[1].out = BigFromBits(KeptBits(call[1].arg))
        /\ BigLess(call[1].out, <<1099511, 627776>>)
        /\ (\A k \in 0..63 : InputBit(call[1].arg, k) = 1 => k \in 14..37)
                => call[1].out = <<0, 0>>

\* C11 witness: the test vector, whose set bits all lie in 14..37, gives 0
C11_Witness ==
    /\ AuthCalled
    /\ call[1].arg = <<0, 64, 101, 166, 42, 0, 0, 0>>
    /\ call[1].out = <<0, 0>>

\* extract_galileo_data has been called
WordsCalled == call # None /\ call[1].fn = "extract_galileo_data"

\* C12 as claimed: the result is the hex string of 32 bytes, byte 4w+i of
\* which is input byte 4w+3-i for every word w in 0..7 and i in 0..3
C12_EveryWordReversed ==
    WordsCalled =>
        /\ Len(call[1].out) = 64
        /\ \A w \in 0..7 : \A i \in 0..3 :
               fromhex(call[1].out)[4 * w + i + 1] = call[1].arg[4 * w + 3 - i + 1]

\* the input byte that each of the 30 output bytes holds
KeptOrder ==
    <<3, 2, 1, 0, 7, 6, 5, 4, 11, 10, 9, 8, 15, 14, 13,
      19, 18, 17, 16, 23, 22, 21, 20, 27, 26, 25, 24, 31, 30, 29>>

\* C12 amended: the result is the hex string of 30 bytes, the 8 words in
\* their order with the bytes of each reversed, words 3 and 7 without their
\* first input byte (input bytes 12 and 28 are dropped)
C12_WordsReversedPaddingDropped ==
    WordsCalled =>
        /\ Len(call[1].out) = 60
        /\ fromhex(call[1].out) = [k \in 1..30 |-> call[1].arg[KeptOrder[k] + 1]]

\* C12 witness: 32 different bytes have been extracted
C12_Witness ==
    /\ WordsCalled
    /\ call[1].arg = [i \in 1..32 |-> i]
    /\ Len(fromhex(call[1].out)) = 30

-----------------------------------------------------------------------------
(* Properties of the convolution, checked under SpecCodec *)

\* bit x of the 15 input bytes, bit 0 the most significant bit of byte 0;
\* 0 before the first bit
InputBitBig(data, x) ==
    IF x < 0 THEN 0 ELSE (data[(x \div 8) + 1] \div (2 ^ (7 - (x % 8)))) % 2

\* the k-th encoded bit, k in 0..239: for input bit x = k div 2 the xor of
\* the input bits x, x-1, ..., x-6 selected by the taps of g0 (k even) or g1
\* (k odd), the g1 bit inverted
EncodedBit(data, k) ==
    LET x    == k \div 2
        taps == IF k % 2 = 0 THEN <<1, 1, 1, 1, 0, 0, 1>>
                ELSE <<1, 0, 1, 1, 0, 1, 1>>
        sum  == taps[1] * InputBitBig(data, x)
                + taps[2] * InputBitBig(data, x - 1)
                + taps[3] * InputBitBig(data, x - 2)
                + taps[4] * InputBitBig(data, x - 3)
                + taps[5] * InputBitBig(data, x - 4)
                + taps[6] * InputBitBig(data, x - 5)
                + taps[7] * InputBitBig(data, x - 6)
    IN  IF k % 2 = 0 THEN sum % 2 ELSE 1 - (sum % 2)

\* bit p of the bytes of a hex string, bit 0 the most significant of byte 0
OutputBit(digits, p) ==
    (HexValue(digits[(p \div 4) + 1]) \div (2 ^ (3 - (p % 4)))) % 2

\* C14: convolution on 15 bytes returns 64 hex digits, 256 bits: the
\* synchronization pattern 0,1,0,1,1,0,0,0,0,0, then the 240 encoded bits
\* interleaved (an 8 x 30 matrix filled by columns, read by rows), then 6 zeros
C14_ConvolutionLayout ==
    \A c \in 1..Len(calls) :
        Len(calls[c].arg) = 15 =>
            /\ Len(calls[c].out) = 64
            /\ \A p \in 0..9 :
                   OutputBit(calls[c].out, p) = <<0, 1, 0, 1, 1, 0, 0, 0, 0, 0>>[p + 1]
            /\ \A row \in 0..7 : \A col \in 0..29 :
                   OutputBit(calls[c].out, 10 + row * 30 + col)
                       = EncodedBit(calls[c].arg, col * 8 + row)
            /\ \A p \in 250..255 : OutputBit(calls[c].out, p) = 0

\* C14 witness: the first 15 bytes extracted from the test message encoded
C14_Witness ==
    \E c \in 1..Len(calls) :
        /\ calls[c].arg = <<7, 118, 119, 52, 1, 0, 99, 93, 36, 34, 81, 245, 127, 15, 64>>
        /\ Len(calls[c].out) = 64

\* C15: two calls of convolution with the same input return the same
\* output, whatever calls were made between them
C15_ConvolutionStateless ==
    \A c \in 1..Len(calls) : \A d \in 1..Len(calls) :
        calls[c].arg = calls[d].arg => calls[c].out = calls[d].out

\* C15 witness: the same input encoded twice with a call on another input,
\* which leaves another register, in between
C15_Witness ==
    /\ Len(calls) >= 3
    /\ calls[1].arg = calls[3].arg
    /\ calls[2].arg # calls[1].arg
    /\ calls[2].arg = Fill(15, 255)
    /\ register # Fill(6, 0)

-----------------------------------------------------------------------------
(* Properties of the queue, checked under SpecPipeline *)

\* C16: the queue between reader and decoder is bounded and holds the reader
\* back when full: the reader, which delivers MaxFrames frames one after the
\* other, is stopped before all of them wait in the queue
C16_BoundedQueue == Len(data_to_parse) < MaxFrames

-----------------------------------------------------------------------------
(* Properties of the shutdown, checked under SpecLifecycle *)

\* a close_all_connections task has released the serial port
SerialReleased == serial_port = "closed"

\* C17: once close_all_connections has closed the serial port, get_data is
\* not running any more and no read is issued on the closed port
C17_NoReadAfterClose ==
    /\ ~read_on_closed_port
    /\ SerialReleased => get_data_task # "running"

\* C17 witness: after a stop signal the reader, which had yielded a frame,
\* was cancelled and the port closed
C17_Witness ==
    /\ SerialReleased
    /\ get_data_task = "cancelled"
    /\ Len(received) >= 1
    /\ \E i \in 1..Len(closers) :
           closers[i].cause = "signal" /\ closers[i].pc = "stop_serial"

\* C18: decode work dispatched to the worker has completed before the
\* serial port is released, the pool closed and the loop stopped
C18_InFlightDrains ==
    (SerialReleased \/ pool_state = "closed" \/ loop_state = "stopped")
        => executor = <<>>

\* C19: close_all_connections is started only by a stop signal or by a
\* serial failure, never by what decoding a frame does
C19_OnlyTransportFatal ==
    \A i \in 1..Len(closers) :
        closers[i].cause \in {"signal", "UbloxSerialException"}

-----------------------------------------------------------------------------
(* Properties of the database, checked under SpecDataBase *)

\* C20: when store_data was called for a table that did not exist, the call
\* has returned, the table exists and holds the record, and the call has
\* created the table once, whatever tables existed before
C20_LazyTableCreation ==
    (last_store # None /\ ~last_store[1].existed) =>
        /\ last_store[1].raised = ""
        /\ last_store[1].table \in DOMAIN tables
        /\ last_store[1].data \in tables[last_store[1].table]
        /\ last_store[1].created = 1

-----------------------------------------------------------------------------
(* Properties of the validation store, checked under SpecValidation *)

\* the elements of a sequence
Range(seq) == {seq[i] : i \in 1..Len(seq)}

\* the keys of the buckets the last flush handed to the file
FlushedKeys == keys(last_flush[1].store)

\* a flush happens exactly when the dict holds 60 buckets, which it never
\* does between two calls
FlushAtSixty ==
    /\ Len(valid_data_to_store) < 60
    /\ last_flush # None =>
          /\ Len(last_flush[1].held) = 60
          /\ Len(FlushedKeys) = 50
          /\ Len(last_flush[1].left) = 10

\* the rows in the file are the rows of the flushed buckets and of no other
FlushWritten ==
    (last_flush # None /\ file # <<>>) =>
        /\ {file[i][1] : i \in 1..Len(file)} = Range(FlushedKeys)
        /\ \A i \in 1..Len(last_flush[1].store) :
              LET b == last_flush[1].store[i]
              IN  Cardinality({j \in 1..Len(file) : file[j][1] = b.key})
                      = Len(b.values)

\* C21 as stated: when the validation mapping reaches 60 time buckets the 50
\* buckets with the smallest time values are written to the file and removed,
\* the 10 with the largest time values stay, and nothing is flushed below 60
C21_SmallestFiftyFlushed ==
    /\ FlushAtSixty
    /\ FlushWritten
    /\ last_flush # None =>
          /\ \A k \in Range(FlushedKeys), l \in Range(last_flush[1].left) : k < l
          /\ Range(FlushedKeys) \cup Range(last_flush[1].left)
                 = Range(last_flush[1].held)

\* C21 amended: when the validation mapping reaches 60 time buckets the 50
\* buckets that entered it first are written to the file and removed, in the
\* order they entered, the 10 that entered last stay, and nothing is flushed
\* below 60
C21_FirstInsertedFiftyFlushed ==
    /\ FlushAtSixty
    /\ FlushWritten
    /\ last_flush # None =>
          /\ FlushedKeys = SubSeq(last_flush[1].held, 1, 50)
          /\ last_flush[1].left = SubSeq(last_flush[1].held, 51, 60)

\* C21: a flush has been written to the file, of a mapping one bucket of
\* which entered after a bucket of a later time
C21_Witness ==
    /\ last_flush # None
    /\ file # <<>>
    /\ \E i \in 1..59 : last_flush[1].held[i] > last_flush[1].held[i + 1]

-----------------------------------------------------------------------------
(* Properties of the worker threads, checked under SpecThreads *)

\* C22: at most one Time or Navigation decode executes at any moment, and no
\* Navigation decode has read the time attributes while a Time decode was
\* between its first and its last write
C22_DecodesNeverOverlap ==
    /\ Len(threads) <= 1
    /\ ~torn_read

\* C22: a Time decode is between its first and its last write while a
\* Navigation job waits in the work queue of the executor
C22_Witness ==
    /\ \E i \in 1..Len(threads) :
          threads[i].job.fn = "parse_time_message" /\ threads[i].pc = "raw"
    /\ executor # <<>>
    /\ Head(executor).fn = "data_to_store"

-----------------------------------------------------------------------------
(* Properties of the reader modes, checked under Spec *)

\* the number of mode flags that are set
FlagsSet ==
    Cardinality({f \in {<<"Cleaning", cleaning_ublox_buffer>>,
                        <<"Transition", first_ublox_message_after_cleaning>>,
                        <<"Steady", ublox_messages>>} : f[2]})

\* what one invocation may do to the mode
ModeStep ==
    /\ Mode = "Cleaning" => Mode' \in {"Cleaning", "Transition"}
    /\ Mode = "Transition" =>
          Mode' = (IF Len(yielded') > Len(yielded) THEN "Steady" ELSE "Transition")
    /\ Mode = "Steady" => Mode' = "Steady"
    /\ Mode' # Mode => Len(yielded') = Len(yielded) + 1

\* C23: exactly one of the flags of Cleaning, Transition and Steady is set at
\* every moment; an invocation leaves the mode as it is or advances it
\* Cleaning -> Transition -> Steady, Transition ends with the one frame it
\* yields, and Steady is never left
C23_ModesAdvance ==
    /\ [](FlagsSet = 1 /\ Mode \in {"Cleaning", "Transition", "Steady"})
    /\ [][ModeStep]_vars

\* C23: a frame has been yielded in Steady mode, which the reader entered
\* through Transition after five yields of Cleaning
C23_Witness ==
    /\ Mode = "Steady"
    /\ last.mode = "Steady"
    /\ last.status = "yield"
    /\ ublox_counter = 5
    /\ Len(yielded) >= 7

-----------------------------------------------------------------------------
(* Properties of the framed reads, checked under Spec *)

\* the little-endian 16-bit length in the header that starts after wire
\* byte h
LengthAt(h) == wire[h + 3] + 256 * wire[h + 4]

\* the last invocation yielded, having skipped skip bytes: it consumed skip
\* bytes, the 4-byte header and N + 2 more, and yielded the N + 6 bytes after
\* the skipped ones
FramedRead(skip) ==
    LET message == yielded[Len(yielded)]
        N       == LengthAt(last.from + skip)
    IN  /\ pos - last.from = skip + N + 6
        /\ Len(message) = N + 6
        /\ message = SubSeq(wire, last.from + skip + 1, last.from + skip + N + 6)
        /\ N = message[3] + 256 * message[4]

\* C24: an invocation that yields in Transition mode has consumed exactly
\* N + 6 bytes, the 4-byte header without any skip and N + 2 more, one that
\* yields in Steady mode exactly N + 8, 2 discarded bytes first; in both the
\* message is the N + 6 bytes of header, payload and trailer, N being the
\* little-endian value of header bytes 2..3
C24_FramedReads ==
    /\ (last.mode = "Transition" /\ last.status = "yield") =>
          FramedRead(0) /\ last.reads = 2
    /\ (last.mode = "Steady" /\ last.status = "yield") =>
          FramedRead(2) /\ last.reads = 3

\* C24: a 26-byte frame has been yielded in Steady mode after a 24-byte
\* frame was yielded in Transition mode
C24_Witness ==
    /\ last.mode = "Steady"
    /\ last.status = "yield"
    /\ Len(yielded) = 7
    /\ Len(yielded[6]) = 24
    /\ Len(yielded[7]) = 26

-----------------------------------------------------------------------------
(* Properties of the stored clock sample, checked under SpecDetector *)

\* the last sample is consistent with the one before it, by section 4.5
ConsistentWithPredecessor ==
    LET th    == parser.threshold
        delta == abs(samples[2][1] - samples[1][1])
    IN  /\ samples[2][2] < th
        /\ \/ delta < th
           \/ 1000000 - th < delta /\ delta < 1000000 + th

\* C25: every Clock sample processed, flagged or not, becomes the stored
\* prior sample, and the attack flag is false after any sample that is
\* consistent with the sample immediately before it, whatever the flag was
C25_AttackNotLatched ==
    /\ samples # <<>> =>
          /\ parser.bias = Some(samples[Len(samples)][1])
          /\ parser.drift = Some(samples[Len(samples)][2])
    /\ (Len(samples) = 2 /\ ConsistentWithPredecessor) => ~parser.attack

-----------------------------------------------------------------------------
(* Properties of the first timestamp, checked under SpecLatch *)

\* what decoding one more Time message may do to first_timestamp_galileo
LatchStep ==
    /\ parser.first_timestamp_galileo # None =>
          parser'.first_timestamp_galileo = parser.first_timestamp_galileo
    /\ parser.first_timestamp_galileo = None =>
          parser'.first_timestamp_galileo =
              Some(ExpectedGalileo(last_time'[1].fields))

\* C26: first_timestamp_galileo is unset until a Time message is decoded,
\* the first Time message decoded sets it to the adjusted wno * 604800 + tow
\* of that message, and no later Time message changes it
C26_FirstTimestampLatched ==
    /\ []((parser.first_timestamp_galileo = None) = (last_time = None))
    /\ [][LatchStep]_vars

\* C26: a later Time message of another second has been decoded and the
\* first timestamp is still the one of the first message
C26_Witness ==
    /\ parser.first_timestamp_galileo # None
    /\ parser.timestamp_message_galileo # parser.first_timestamp_galileo
    /\ parser.first_timestamp_galileo = Some(-1)

-----------------------------------------------------------------------------
(* Properties of the encoder, checked under SpecCodec *)

\* exclusive or of five bits
Xor5(a, b, c, d, e) == (a + b + c + d + e) % 2

\* C27: for 120 input bits the encoder emits 240 bits; with x the input bit
\* k and s1..s6 the six input bits before it, s1 the latest and zeros before
\* the first bit, bit 2k is x + s1 + s2 + s3 + s6 modulo 2 and bit 2k + 1 is
\* the negation of x + s2 + s3 + s5 + s6 modulo 2
C27_EncoderTaps ==
    \A c \in 1..Len(calls) :
        LET x(k)    == InputBitBig(calls[c].arg, k)
            s(k, i) == InputBitBig(calls[c].arg, k - i)
        IN  Len(calls[c].arg) = 15 =>
                /\ Len(calls[c].encoded) = 240
                /\ \A k \in 0..119 :
                      /\ calls[c].encoded[2 * k + 1]
                            = Xor5(x(k), s(k, 1), s(k, 2), s(k, 3), s(k, 6))
                      /\ calls[c].encoded[2 * k + 2]
                            = 1 - Xor5(x(k), s(k, 2), s(k, 3), s(k, 5), s(k, 6))

\* C27: the second 15 bytes extracted from the test message have been
\* encoded, into bits that are neither all 0 nor all 1
C27_Witness ==
    \E c \in 1..Len(calls) :
        /\ calls[c].arg = Slice(fromhex(extract_galileo_data(
                                    SubSeq(TestNavFrame, 13, 44))), 15, 30)
        /\ \E k \in 1..240 : calls[c].encoded[k] = 0
        /\ \E k \in 1..240 : calls[c].encoded[k] = 1

-----------------------------------------------------------------------------
(* Properties of the interleaver, checked under SpecInterleaver *)

\* the positions of the bits that are set in the 256 bits of a hex string
SetBits(digits) == {p \in 0..255 : OutputBit(digits, p) = 1}

\* C28: output bit 10 + 30 * r + c of convolution is encoded bit 8 * c + r,
\* for r in 0..7 and c in 0..29, and the interleaver moves every encoded bit
\* to one output position and to no other: an outputy in which only bit
\* 8 * c + r is set comes out with only bit 10 + 30 * r + c set after the
\* synchronization pattern
C28_InterleaverPermutes ==
    /\ \A k \in 1..Len(calls) : \A r \in 0..7 : \A c \in 0..29 :
          OutputBit(calls[k].out, 10 + 30 * r + c) = calls[k].encoded[8 * c + r + 1]
    /\ (call # None /\ call[1].fn = "interleaver") =>
          /\ Len(call[1].out) = 64
          /\ \E r \in 0..7 : \E c \in 0..29 :
                /\ call[1].arg[8 * c + r + 1] = 1
                /\ SetBits(call[1].out) = {1, 3, 4} \cup {10 + 30 * r + c}

\* C28: the interleaver has been applied to the outputy in which only bit
\* 8 * 29 + 6 is set, the bit it moves the furthest forward
C28_Witness ==
    /\ call # None
    /\ call[1].fn = "interleaver"
    /\ call[1].arg[8 * 29 + 6 + 1] = 1
    /\ OutputBit(call[1].out, 10 + 30 * 6 + 29) = 1

-----------------------------------------------------------------------------
(* Properties of the Cleaning mode, checked under Spec *)

\* a frame the Cleaning mode accepts as a candidate
Long(f) == Len(f) >= 24

\* the index in the stream of the n-th frame of at least 24 bytes
NthLong(n) ==
    CHOOSE j \in 1..Len(sent) :
        Long(sent[j]) /\ Cardinality({i \in 1..j : Long(sent[i])}) = n

\* the wire offset after frame j and the delimiter that follows it
AfterFrame(j) == Len(WireOf(SubSeq(sent, 1, j))) + 2

\* C29: on a stream of frames of 23, 24 and 26 bytes (or 6, 23, 24 and 26),
\* the n-th Cleaning invocation yields the n-th frame of at least 24 bytes,
\* a 24-byte frame included, having read and dropped in the same invocation
\* every shorter candidate before it; the counter is the number of frames
\* yielded whatever the number of dropped candidates, and the reader is in
\* Transition exactly from the fifth yield on
C29_ShortCandidatesSkipped ==
    (last.mode = "Cleaning" /\ last.status = "yield") =>
        LET n     == Len(yielded)
            j     == NthLong(n)
            jprev == IF n = 1 THEN 0 ELSE NthLong(n - 1)
        IN  /\ n <= 5
            /\ ublox_counter = n
            /\ (Mode = "Transition") = (n = 5)
            /\ (Mode = "Cleaning") = (n < 5)
            /\ yielded[n] = sent[j]
            /\ \A i \in (jprev + 1)..(j - 1) : Len(sent[i]) < 24
            /\ last.reads = (j - jprev) + (IF n = 1 THEN 1 ELSE 0)
            /\ last.from = (IF n = 1 THEN 0 ELSE AfterFrame(jprev))
            /\ pos = AfterFrame(j)

\* C29: the fifth Cleaning invocation has dropped a 23-byte candidate and
\* yielded a 24-byte one, after 23-byte candidates dropped by earlier
\* invocations: the reader is in Transition
C29_Witness ==
    /\ last.mode = "Cleaning"
    /\ last.status = "yield"
    /\ Mode = "Transition"
    /\ Len(yielded) = 5
    /\ Len(yielded[5]) = 24
    /\ last.reads = 2
    /\ \E i \in 1..3 : Len(sent[i]) = 23

-----------------------------------------------------------------------------
(* Properties of the frame alignment, checked under SpecPairs *)

\* the two wire bytes before offset h are the preamble
PreambleBefore(h) == h >= 2 /\ wire[h - 1] = 181 /\ wire[h] = 98

\* C30: on a stream of well-formed preamble-prefixed frames, frames that hold
\* the preamble pair in their payload included, a frame yielded in Transition
\* mode starts right after a preamble pair and the 2 bytes an invocation
\* skips before a frame yielded in Steady mode are the preamble 0xB5 0x62
C30_FramesFollowPreamble ==
    /\ (last.mode = "Transition" /\ last.status = "yield") =>
          PreambleBefore(last.from)
    /\ (last.mode = "Steady" /\ last.status = "yield") =>
          PreambleBefore(last.from + 2)

-----------------------------------------------------------------------------
(* Properties of a stored sample of zero, checked under SpecDetector *)

\* what parse_clock_message does to a Clock sample that follows a stored
\* sample whose bias or drift is 0
ZeroPriorStep ==
    (/\ samples # <<>>
     /\ parser.bias = Some(0) \/ parser.drift = Some(0)
     /\ parser' # parser \/ samples' # samples)
    => /\ parser'.attack = parser.attack
       /\ parser'.bias = Some(samples'[Len(samples')][1])
       /\ parser'.drift = Some(samples'[Len(samples')][2])

-----------------------------------------------------------------------------
(* Properties of the unix timestamp, checked under SpecLatch *)

\* ((wno * 604800 + tow) * 1000 + 935280000000) - leap * 1000 as <<hi, lo>>:
\* 1000 * q, q the seconds below
UnadjustedUnix(f) ==
    LET q == GalileoSeconds(f) + 935280000 - f[3]
    IN  <<q \div 1000, (q % 1000) * 1000>>

-----------------------------------------------------------------------------
(* Properties of adjust_second, checked under SpecLatch *)

\* C33: adjust_second preserves the order of the seconds and returns an odd
\* value, and it is not injective: the Time messages of the consecutive
\* seconds 2k + 1 and 2k + 2 both get the Galileo timestamp 2k - 1
C33_AdjustMonotoneNotInjective ==
    (last_time # None /\ last_time[1].before # None) =>
        LET x  == GalileoSeconds(last_time[1].before[1].fields)
            ax == last_time[1].before[1].galileo
            y  == GalileoSeconds(last_time[1].fields)
            ay == parser.timestamp_message_galileo[1]
        IN  /\ x <= y => ax <= ay
            /\ y <= x => ay <= ax
            /\ ax % 2 = 1 /\ ay % 2 = 1
            /\ (x % 2 = 1 /\ y = x + 1) => (ax = x - 2 /\ ay = x - 2)

\* the Time messages of the seconds 3 and 4 have been decoded one after the
\* other and have the same Galileo timestamp
C33_Witness ==
    /\ last_time # None
    /\ last_time[1].before # None
    /\ GalileoSeconds(last_time[1].before[1].fields) = 3
    /\ GalileoSeconds(last_time[1].fields) = 4
    /\ last_time[1].before[1].galileo = parser.timestamp_message_galileo[1]

-----------------------------------------------------------------------------
(* Properties of the validation chunks, checked under SpecFrames *)

\* a Navigation message has been decoded with validation active, after a
\* Time message
DecodedForValidation ==
    /\ returned # None
    /\ returned[1].time # None
    /\ parser.validation_active

\* C34: with validation active every Navigation decode schedules exactly two
\* validation chunks of exactly 15 bytes each: bytes [0:15] of the extracted
\* Galileo data for the time bucket t = galileo timestamp - first galileo
\* timestamp, and the remaining bytes [15:] for the bucket t + 1
C34_TwoChunksOfFifteen ==
    DecodedForValidation =>
        LET tasks   == returned[1].tasks
            galileo == fromhex(extract_galileo_data(
                                   Slice(returned[1].data, 12, 44)))
            \* the Galileo timestamp of the Time message decoded last
            \* before the Navigation message, minus the first one
            t       == ExpectedGalileo(returned[1].time[1].fields)
                       - parser.first_timestamp_galileo[1]
        IN  /\ returned[1].raised = ""
            /\ Len(tasks) = 2
            /\ Len(tasks[1][2]) = 15 /\ Len(tasks[2][2]) = 15
            /\ tasks[1][2] \o tasks[2][2] = galileo
            /\ tasks[1][1] = t /\ tasks[2][1] = t + 1
            /\ tasks[1][3] = returned[1].fields[2]
            /\ tasks[2][3] = returned[1].fields[2]

-----------------------------------------------------------------------------
(* Properties of the validated samples, checked under SpecValidation *)

\* the <<time bucket, satellite>> of the samples of a dict of buckets
RowsOf(d) ==
    Flatten([i \in 1..Len(d) |->
                [j \in 1..Len(d[i].values) |->
                    <<d[i].key, d[i].values[j].satellite_id>>]])

\* the rows of the stores handed to the file writer and not written yet
HandedRows ==
    Flatten([i \in 1..Len(validation_executor) |->
                IF validation_executor[i].fn = "store_validated_data_in_file"
                THEN RowsOf(validation_executor[i].store[1])
                ELSE <<>>])

\* the samples held in the mapping, handed to the file writer, and written
SampleRows ==
    RowsOf(valid_data_to_store) \o HandedRows
    \o [i \in 1..Len(file) |-> <<file[i][1], file[i][2]>>]

\* the validate_data tasks that have appended their sample: two for each
\* page decoded, but the ones that still await convolution
Appended ==
    2 * (fed \div 2)
    - Cardinality({i \in 1..Len(validation_executor) :
                      validation_executor[i].fn = "convolution"})

\* C35: after any interleaving of validate_data tasks every sample that was
\* appended is still held in the mapping or has been handed to the file
\* writer exactly once: none is dropped, none is written twice, and the
\* mapping never holds 60 buckets or more once an append has completed
C35_SamplesHeldOrHandedOnce ==
    /\ \A rows \in {SampleRows} :
           /\ Len(rows) = Appended
           /\ \A a, b \in 1..Len(rows) : rows[a] = rows[b] => a = b
           \* the sample of bucket t is the one of the page of slot t \div 2,
           \* whose satellite is 18 in the even slots and 3 in the odd ones
           /\ \A a \in 1..Len(rows) :
                  /\ rows[a][1] \in 0..(2 * (fed \div 2) - 1)
                  /\ rows[a][2] = (IF (rows[a][1] \div 2) % 2 = 0 THEN 18 ELSE 3)
    /\ Len(valid_data_to_store) < 60

\* one validate_data task has overtaken another, the mapping has been
\* flushed and the 50 buckets of the store are in the file
C35_Witness ==
    /\ overtakes > 0
    /\ Len(file) = 50
    /\ Len(valid_data_to_store) = 10
    /\ Appended = 60

-----------------------------------------------------------------------------
(* Properties of concurrent store_data calls, checked under SpecStores *)

\* the store_data call i has returned or raised
Finished(i) == store_calls[i].pc \in {"done", "raised"}

\* C36: two store_data calls that run concurrently for the same table, which
\* did not exist when either started, both complete with their record
\* inserted: the table exists and neither call has failed or lost its record
\* because the other created the table or its index first
C36_ConcurrentStoresComplete ==
    \A i, j \in 1..Len(store_calls) :
        (/\ i # j
         /\ store_calls[i].table = store_calls[j].table
         /\ store_calls[i].data # store_calls[j].data
         /\ ~store_calls[i].existed /\ ~store_calls[j].existed
         /\ Finished(i) /\ Finished(j))
        => /\ store_calls[i].raised = ""
           /\ store_calls[i].table \in DOMAIN tables
           /\ store_calls[i].data \in tables[store_calls[i].table]

-----------------------------------------------------------------------------
(* Shutdown of the receiver, checked under FairLifecycle *)

\* a close_all_connections task has run to its end
ShutdownCompleted ==
    /\ \E i \in 1..Len(closers) : closers[i].pc = "done"
    /\ get_data_task # "running"
    /\ parse_data_task # "running"
    /\ serial_port = "closed"
    /\ loop_state = "stopped"

\* C37: once a stop signal or an unhandled exception has created a
\* close_all_connections task, a second one created during the shutdown
\* included, one of these tasks eventually runs to its end, with the reader
\* and the consumer tasks no longer running, the serial port closed and the
\* loop stopped; and the tasks never cancel one another so that none is left
\* to reach loop.stop()
C37_ShutdownCompletes ==
    /\ [](closers # <<>> => \E i \in 1..Len(closers) : closers[i].pc # "cancelled")
    /\ (closers # <<>>) ~> ShutdownCompleted

C37_Witness ==
    /\ ShutdownCompleted
    /\ \E i, j \in 1..Len(closers) :
           /\ i < j
           /\ closers[i].pc = "cancelled"
           /\ closers[j].pc = "done"
    \* the earlier shutdown had closed the port before it was cancelled
    /\ \E i \in 1..Len(closers) : closers[i].cause = "signal"

=============================================================================
